---- MODULE Spec2Model ----
(***************************************************************************)
(* Model of the self-healing agent loop: the orchestrator runAgentLoop     *)
(* (memory-enabled version), the Actor (act, executeClick, executeType,    *)
(* executeSelect, ...), and the Healer (healSelector and its scorers).     *)
(* The persistent store, the embedding service, the browser driver and the *)
(* reasoning oracle are collaborators: their answers are nondeterministic. *)
(***************************************************************************)
EXTENDS Integers, Sequences, FiniteSets, TLC

\* ------------------------------------------------------------------------
\* Bounds of the model
\* ------------------------------------------------------------------------

\* largest config.maxSteps a run is started with
MaxStepsBound == 2

\* ------------------------------------------------------------------------
\* Values
\* ------------------------------------------------------------------------

\* null / undefined of an optional object: the empty sequence; a present
\* object x is <<x>>
None == <<>>

Some(x) == <<x>>

\* an absent (undefined) string-valued field; JavaScript's falsy test
\* (!value, a || b) also treats the empty string as absent
Absent == ""

\* an attribute that the element does not carry (attributes.type === undefined)
Undefined == "<undefined>"

\* A rational number n/d (d > 0): similarity scores and confidences
Rat(n, d) == [n |-> n, d |-> d]

\* a > b for rationals
RatGT(a, b) == a.n * b.d > b.n * a.d

\* ------------------------------------------------------------------------
\* Observer data: ActionableElement, ElementSelectors
\* ------------------------------------------------------------------------

\* text is a sequence of one-character strings; attributes.class is the
\* sequence of its space-separated tokens (<<>> when the attribute is absent)
Element(id, tag, text, cls, type, name, css, xpath, testId) ==
    [ id |-> id, tagName |-> tag, text |-> text,
      attributes |-> [ class |-> cls, type |-> type, name |-> name,
                       placeholder |-> Undefined ],
      selectors |-> [ css |-> css, xpath |-> xpath, testId |-> testId,
                      ariaLabel |-> Absent ] ]

\* a mutant of FindById: when no element has the id, the first element of
\* the snapshot is taken
FindByIdOrFirst(elements, id) ==
    LET idx == { i \in 1..Len(elements) : elements[i].id = id }
    IN  IF idx = {} THEN (IF elements = <<>> THEN None ELSE Some(elements[1]))
        ELSE Some(elements[CHOOSE i \in idx : \A j \in idx : i <= j])

\* snapshot.actionableElements.find(el => el.id === id): the first element
\* with that id, or None
FindById(elements, id) ==
    LET idx == { i \in 1..Len(elements) : elements[i].id = id }
    IN  IF idx = {} THEN None
        ELSE Some(elements[CHOOSE i \in idx : \A j \in idx : i <= j])

\* Array.prototype.find with a predicate given as the set of matching indices
FirstOf(elements, idx) ==
    IF idx = {} THEN None
    ELSE Some(elements[CHOOSE i \in idx : \A j \in idx : i <= j])

\* The pages a snapshot is captured from.  generateCSSSelector and
\* generateXPathSelector always return a non-empty string, so every captured
\* element has css and xpath; testId is optional; text may be empty.
PageButtons ==
    << Element("element-0", "button", <<"O", "k">>, <<"btn">>, Undefined,
               Undefined, "c0", "x0", "t0"),
       Element("element-1", "button", <<"O", "k">>, <<"btn">>, Undefined,
               Undefined, "c1", "x1", Absent) >>

PageInputs ==
    << Element("element-0", "input", <<>>, <<>>, "text", "q",
               "c0", "x0", Absent),
       Element("element-1", "input", <<>>, <<>>, "text", "q",
               "c1", "x1", Absent) >>

Pages == { PageButtons, PageInputs }

\* ------------------------------------------------------------------------
\* Thinker data: Action
\* ------------------------------------------------------------------------

ActionTypes == { "click", "type", "select", "wait", "navigate", "verify" }

MkAction(type, target, value, description) ==
    [ type |-> type, targetElementId |-> target, value |-> value,
      description |-> description ]

\* ------------------------------------------------------------------------
\* Actor
\* ------------------------------------------------------------------------

StrategyTypes == { "testId", "css", "xpath" }

\* What the browser does with one act: strategy[t] says whether the driver
\* call made with selector strategy t succeeds (otherwise it throws or times
\* out); other is the outcome of the single driver call of select, navigate
\* and verify.
DriverOutcomes == [ strategy : [StrategyTypes -> BOOLEAN], other : BOOLEAN ]

\* ActionResult of a successful action; selectorUsed is <<type, value>> for
\* the template `${type}: ${value}`, <<selector>> for the bare selector of
\* select, and <<>> when the field is not set
Succeeded(selectorUsed, tried) ==
    [ success |-> TRUE, error |-> Absent, selectorUsed |-> selectorUsed,
      tried |-> tried ]

\* a mutant of Failed: the message of the exception is dropped
FailedWithoutMessage(message, tried) ==
    [ success |-> FALSE, error |-> Absent, selectorUsed |-> <<>>,
      tried |-> tried ]

\* an exception thrown inside act, turned into an ActionResult by its catch
Failed(message, tried) ==
    [ success |-> FALSE, error |-> message, selectorUsed |-> <<>>,
      tried |-> tried ]

\* the mutant of selectorStrategies that prefers css over testId
selectorStrategiesCssFirst(element) ==
    << [ type |-> "css", value |-> element.selectors.css ],
       [ type |-> "testId", value |-> element.selectors.testId ],
       [ type |-> "xpath", value |-> element.selectors.xpath ] >>

\* the strategies of executeClick and executeType, in order of reliability
selectorStrategies(element) ==
    << [ type |-> "testId", value |-> element.selectors.testId ],
       [ type |-> "css", value |-> element.selectors.css ],
       [ type |-> "xpath", value |-> element.selectors.xpath ] >>

RECURSIVE TryStrategiesKeepsGoing(_, _, _, _, _)
\* a mutant of TryStrategies: a success does not end the loop, the last
\* strategy that succeeds is reported
TryStrategiesKeepsGoing(strategies, i, drv, tried, failure) ==
    IF i > Len(strategies)
    THEN LET ok == { k \in 1..Len(tried) : drv.strategy[tried[k].type] }
             last == CHOOSE k \in ok : \A j \in ok : j <= k
         IN  IF ok = {} THEN Failed(failure, tried)
             ELSE Succeeded(<<tried[last].type, tried[last].value>>, tried)
    ELSE LET s == strategies[i]
         IN  IF s.value = Absent
             THEN TryStrategiesKeepsGoing(strategies, i + 1, drv, tried, failure)
             ELSE TryStrategiesKeepsGoing(strategies, i + 1, drv,
                                          Append(tried, s), failure)

RECURSIVE TryStrategies(_, _, _, _, _)
\* the for loop over the strategies: an absent selector is skipped, a driver
\* failure moves on to the next strategy, the first success returns
TryStrategies(strategies, i, drv, tried, failure) ==
    IF i > Len(strategies) THEN Failed(failure, tried)
    ELSE LET s == strategies[i]
         IN  IF s.value = Absent
             THEN TryStrategies(strategies, i + 1, drv, tried, failure)
             ELSE IF drv.strategy[s.type]
             THEN Succeeded(<<s.type, s.value>>, Append(tried, s))
             ELSE TryStrategies(strategies, i + 1, drv, Append(tried, s),
                                failure)

executeClick(action, elements, drv) ==
    LET element == FindById(elements, action.targetElementId)
    IN  IF element = None THEN Failed("Element not found", <<>>)
        ELSE TryStrategies(selectorStrategies(element[1]), 1, drv, <<>>,
                 "Failed to click element with any selector strategy")

executeType(action, elements, drv) ==
    LET element == FindById(elements, action.targetElementId)
    IN  IF element = None THEN Failed("Element not found", <<>>)
        ELSE IF action.value = Absent
        THEN Failed("Type action requires a value", <<>>)
        ELSE TryStrategies(selectorStrategies(element[1]), 1, drv, <<>>,
                 "Failed to type into element with any selector strategy")

\* a mutant of executeSelect: select goes through the strategies of click
\* and type, testId first, and falls back from one to the next
executeSelectWithFallback(action, elements, drv) ==
    LET element == FindById(elements, action.targetElementId)
    IN  IF element = None THEN Failed("Element not found", <<>>)
        ELSE IF action.value = Absent
        THEN Failed("Select action requires a value", <<>>)
        ELSE TryStrategies(selectorStrategies(element[1]), 1, drv, <<>>,
                 "select failed")

executeSelect(action, elements, drv) ==
    LET element == FindById(elements, action.targetElementId)
    IN  IF element = None THEN Failed("Element not found", <<>>)
        ELSE IF action.value = Absent
        THEN Failed("Select action requires a value", <<>>)
        ELSE LET sel == element[1].selectors
                 selector == IF sel.css # Absent THEN sel.css ELSE sel.xpath
                 used == [ type |-> IF sel.css # Absent THEN "css" ELSE "xpath",
                           value |-> selector ]
             IN  IF selector = Absent
                 THEN Failed("No valid selector found for select element", <<>>)
                 ELSE IF drv.other THEN Succeeded(<<selector>>, <<used>>)
                 ELSE Failed("select failed", <<used>>)

executeWait(action) == Succeeded(<<>>, <<>>)

executeNavigate(action, drv) ==
    IF action.value = Absent THEN Failed("Navigate action requires a URL", <<>>)
    ELSE IF drv.other THEN Succeeded(<<>>, <<>>)
    ELSE Failed("navigation failed", <<>>)

executeVerify(action, drv) ==
    IF action.value = Absent
    THEN Failed("Verify action requires a text to search for", <<>>)
    ELSE IF drv.other THEN Succeeded(<<>>, <<>>)
    ELSE Failed("Verification failed", <<>>)

\* act: dispatch on the action type; every exception is caught and returned
\* as a failed ActionResult
act(action, elements, drv) ==
    CASE action.type = "click"    -> executeClick(action, elements, drv)
      [] action.type = "type"     -> executeType(action, elements, drv)
      [] action.type = "select"   -> executeSelect(action, elements, drv)
      [] action.type = "wait"     -> executeWait(action)
      [] action.type = "navigate" -> executeNavigate(action, drv)
      [] action.type = "verify"   -> executeVerify(action, drv)
      [] OTHER                    -> Failed("Unknown action type", <<>>)

\* ------------------------------------------------------------------------
\* Healer
\* ------------------------------------------------------------------------

\* A text is a sequence of UTF-16 code units, as String.prototype.length and
\* str[i] see it.  DottedCapitalI is U+0130 (LATIN CAPITAL LETTER I WITH DOT
\* ABOVE), CombiningDot is U+0307.
DottedCapitalI == "U+0130"

CombiningDot == "U+0307"

\* String.prototype.toLowerCase on one code unit: the lower-case mapping of
\* the Unicode character database, SpecialCasing included, so that U+0130
\* becomes the two code units "i" U+0307
ToLowerChar(c) ==
    CASE c = "A" -> <<"a">> [] c = "B" -> <<"b">> [] c = "O" -> <<"o">>
      [] c = "K" -> <<"k">> [] c = "Y" -> <<"y">> [] c = "S" -> <<"s">>
      [] c = DottedCapitalI -> <<"i", CombiningDot>>
      [] OTHER -> <<c>>

RECURSIVE toLowerCase(_)
toLowerCase(str) ==
    IF str = <<>> THEN <<>>
    ELSE ToLowerChar(Head(str)) \o toLowerCase(Tail(str))

IsSpace(c) == c = " "

RECURSIVE trimStart(_)
trimStart(str) ==
    IF str # <<>> /\ IsSpace(Head(str)) THEN trimStart(Tail(str)) ELSE str

RECURSIVE trimEnd(_)
trimEnd(str) ==
    IF str # <<>> /\ IsSpace(str[Len(str)])
    THEN trimEnd(SubSeq(str, 1, Len(str) - 1)) ELSE str

\* String.prototype.trim
trim(str) == trimEnd(trimStart(str))

\* a.includes(b): b occurs in a as a contiguous substring
includes(a, b) ==
    \E k \in 0..(Len(a) - Len(b)) : SubSeq(a, k + 1, k + Len(b)) = b

Min2(a, b) == IF a < b THEN a ELSE b

\* a mutant of Max2: the first length is taken for the longer one
Max2First(a, b) == a

Max2(a, b) == IF a > b THEN a ELSE b

Min3(a, b, c) == Min2(a, Min2(b, c))

\* the dynamic-programming table of levenshteinDistance, dp[m][n]
levenshteinDistance(str1, str2) ==
    LET m == Len(str1)
        n == Len(str2)
        dp[i \in 0..m, j \in 0..n] ==
            IF j = 0 THEN i
            ELSE IF i = 0 THEN j
            ELSE IF str1[i] = str2[j] THEN dp[i - 1, j - 1]
            ELSE Min3(dp[i - 1, j] + 1, dp[i, j - 1] + 1, dp[i - 1, j - 1] + 1)
    IN  dp[m, n]

\* a mutant of EmptySimilarity: an empty first text is similar to nothing
EmptySimilarityZero(len2) == Rat(0, 1)

\* if (len1 === 0) return len2 === 0 ? 1 : 0
EmptySimilarity(len2) == IF len2 = 0 THEN Rat(1, 1) ELSE Rat(0, 1)

\* calculateTextSimilarity: the lengths are those of the texts as given, the
\* comparisons are made on the lower-cased, trimmed texts
calculateTextSimilarity(text1_, text2_) ==
    LET len1 == Len(text1_)
        len2 == Len(text2_)
        normalized1 == trim(toLowerCase(text1_))
        normalized2 == trim(toLowerCase(text2_))
    IN  IF len1 = 0 THEN EmptySimilarity(len2)
        ELSE IF len2 = 0 THEN Rat(0, 1)
        ELSE IF normalized1 = normalized2 THEN Rat(1, 1)
        ELSE IF includes(normalized1, normalized2)
                \/ includes(normalized2, normalized1)
        THEN Rat(Min2(len1, len2), Max2(len1, len2))
        ELSE Rat(Max2(len1, len2) - levenshteinDistance(normalized1, normalized2),
                 Max2(len1, len2))

\* a mutant of findByExactText: the target itself is not a candidate
findByExactTextOfOthers(target, candidates) ==
    IF target.text = <<>> THEN None
    ELSE FirstOf(candidates,
                 { i \in 1..Len(candidates) :
                      /\ candidates[i].id # target.id
                      /\ candidates[i].text = target.text
                      /\ candidates[i].tagName = target.tagName })

\* findByExactText: the first candidate with the same text and tag name
findByExactText(target, candidates) ==
    IF target.text = <<>> THEN None
    ELSE FirstOf(candidates,
                 { i \in 1..Len(candidates) :
                      /\ candidates[i].text = target.text
                      /\ candidates[i].tagName = target.tagName })

RECURSIVE BestSimilarTextKeepsFirst(_, _, _, _)
\* a mutant of BestSimilarText: the first candidate above 0.7 is kept, a
\* better one that comes later is not
BestSimilarTextKeepsFirst(target, candidates, i, bestMatch) ==
    IF i > Len(candidates) THEN bestMatch
    ELSE LET candidate == candidates[i]
             similarity_ == calculateTextSimilarity(target.text, candidate.text)
         IN  IF candidate.text = <<>> \/ candidate.tagName # target.tagName
             THEN BestSimilarTextKeepsFirst(target, candidates, i + 1, bestMatch)
             ELSE IF RatGT(similarity_, Rat(7, 10)) /\ bestMatch = None
             THEN BestSimilarTextKeepsFirst(target, candidates, i + 1,
                      Some([ element |-> candidate, confidence |-> similarity_ ]))
             ELSE BestSimilarTextKeepsFirst(target, candidates, i + 1, bestMatch)

RECURSIVE BestSimilarText(_, _, _, _)
\* the loop of findBySimilarText from candidate i on, with bestMatch so far
BestSimilarText(target, candidates, i, bestMatch) ==
    IF i > Len(candidates) THEN bestMatch
    ELSE LET candidate == candidates[i]
             similarity_ == calculateTextSimilarity(target.text, candidate.text)
         IN  IF candidate.text = <<>> \/ candidate.tagName # target.tagName
             THEN BestSimilarText(target, candidates, i + 1, bestMatch)
             ELSE IF /\ RatGT(similarity_, Rat(7, 10))
                     /\ (bestMatch = None
                            \/ RatGT(similarity_, bestMatch[1].confidence))
             THEN BestSimilarText(target, candidates, i + 1,
                      Some([ element |-> candidate, confidence |-> similarity_ ]))
             ELSE BestSimilarText(target, candidates, i + 1, bestMatch)

findBySimilarText(target, candidates) ==
    IF target.text = <<>> THEN None
    ELSE BestSimilarText(target, candidates, 1, None)

\* commonClasses.length: the target's class tokens that the candidate has
CommonClasses(targetClasses, candidateClasses) ==
    Cardinality({ i \in 1..Len(targetClasses) :
                    \E j \in 1..Len(candidateClasses) :
                        candidateClasses[j] = targetClasses[i] })

\* a mutant of StructuralScore: an attribute counts only when the target has
\* it
StructuralScoreOfPresent(target, candidate) ==
    LET ta == target.attributes
        ca == candidate.attributes
        both == ta.class # <<>> /\ ca.class # <<>>
        same(a, b) == a # Undefined /\ a = b
        score ==   (IF both THEN CommonClasses(ta.class, ca.class) ELSE 0)
                 + (IF same(ta.type, ca.type) THEN 1 ELSE 0)
                 + (IF same(ta.name, ca.name) THEN 1 ELSE 0)
                 + (IF same(ta.placeholder, ca.placeholder) THEN 1 ELSE 0)
        maxScore ==   (IF both THEN Len(ta.class) ELSE 0)
                    + (IF same(ta.type, ca.type) THEN 1 ELSE 0)
                    + (IF same(ta.name, ca.name) THEN 1 ELSE 0)
                    + (IF same(ta.placeholder, ca.placeholder) THEN 1 ELSE 0)
    IN  IF maxScore > 0 THEN Rat(score, maxScore) ELSE Rat(0, 1)

\* score / maxScore of one candidate in findByStructuralSimilarity
StructuralScore(target, candidate) ==
    LET ta == target.attributes
        ca == candidate.attributes
        both == ta.class # <<>> /\ ca.class # <<>>
        score ==   (IF both THEN CommonClasses(ta.class, ca.class) ELSE 0)
                 + (IF ta.type = ca.type THEN 1 ELSE 0)
                 + (IF ta.name = ca.name THEN 1 ELSE 0)
                 + (IF ta.placeholder = ca.placeholder THEN 1 ELSE 0)
        maxScore ==   (IF both THEN Len(ta.class) ELSE 0)
                    + (IF ta.type = ca.type THEN 1 ELSE 0)
                    + (IF ta.name = ca.name THEN 1 ELSE 0)
                    + (IF ta.placeholder = ca.placeholder THEN 1 ELSE 0)
    IN  IF maxScore > 0 THEN Rat(score, maxScore) ELSE Rat(0, 1)

RECURSIVE BestStructural(_, _, _, _)
\* the loop of findByStructuralSimilarity from candidate i on
BestStructural(target, candidates, i, bestMatch) ==
    IF i > Len(candidates) THEN bestMatch
    ELSE LET candidate == candidates[i]
             confidence == StructuralScore(target, candidate)
         IN  IF candidate.tagName # target.tagName
             THEN BestStructural(target, candidates, i + 1, bestMatch)
             ELSE IF /\ RatGT(confidence, Rat(1, 2))
                     /\ (bestMatch = None
                            \/ RatGT(confidence, bestMatch[1].confidence))
             THEN BestStructural(target, candidates, i + 1,
                      Some([ element |-> candidate, confidence |-> confidence ]))
             ELSE BestStructural(target, candidates, i + 1, bestMatch)

findByStructuralSimilarity(target, candidates) ==
    BestStructural(target, candidates, 1, None)

HealingResult(healed, original, healedSelector, confidence, method) ==
    [ healed |-> healed, originalSelector |-> original,
      healedSelector |-> healedSelector, confidence |-> confidence,
      method |-> method ]

\* a mutant of ExactMatchConfidence
ExactMatchConfidenceOne == Rat(1, 1)

\* the confidence healSelector reports for an exact text match
ExactMatchConfidence == Rat(95, 100)

\* a mutant of StructuralThreshold: whatever the scorer keeps is surfaced
StructuralThresholdOfScorer == Rat(1, 2)

\* structuralMatch.confidence > 0.6
StructuralThreshold == Rat(6, 10)

\* a mutant of FailedConfidence: a failed heal reports the threshold it
\* missed
FailedConfidenceOfThreshold == StructuralThreshold

\* the confidence healSelector reports when no tier matched
FailedConfidence == Rat(0, 1)

\* a mutant of healSelector: the structural tier is evaluated first
healSelectorStructuralFirst(brokenElement, currentElements) ==
    LET original == brokenElement.selectors.css
        textMatch == findByExactText(brokenElement, currentElements)
        similarTextMatch == findBySimilarText(brokenElement, currentElements)
        structuralMatch ==
            findByStructuralSimilarity(brokenElement, currentElements)
    IN  IF structuralMatch # None
           /\ RatGT(structuralMatch[1].confidence, StructuralThreshold)
        THEN HealingResult(TRUE, original,
                           structuralMatch[1].element.selectors.css,
                           structuralMatch[1].confidence,
                           "structural-similarity")
        ELSE IF textMatch # None
        THEN HealingResult(TRUE, original, textMatch[1].selectors.css,
                           ExactMatchConfidence, "exact-match")
        ELSE IF similarTextMatch # None
                /\ RatGT(similarTextMatch[1].confidence, Rat(7, 10))
        THEN HealingResult(TRUE, original,
                           similarTextMatch[1].element.selectors.css,
                           similarTextMatch[1].confidence, "text-similarity")
        ELSE HealingResult(FALSE, original, Absent, FailedConfidence, "failed")

\* healSelector: exact text, then similar text above 0.7, then structural
\* similarity above 0.6, else failed
healSelector(brokenElement, currentElements) ==
    LET original == brokenElement.selectors.css
        textMatch == findByExactText(brokenElement, currentElements)
        similarTextMatch == findBySimilarText(brokenElement, currentElements)
        structuralMatch ==
            findByStructuralSimilarity(brokenElement, currentElements)
    IN  IF textMatch # None
        THEN HealingResult(TRUE, original, textMatch[1].selectors.css,
                           ExactMatchConfidence, "exact-match")
        ELSE IF similarTextMatch # None
                /\ RatGT(similarTextMatch[1].confidence, Rat(7, 10))
        THEN HealingResult(TRUE, original,
                           similarTextMatch[1].element.selectors.css,
                           similarTextMatch[1].confidence, "text-similarity")
        ELSE IF structuralMatch # None
                /\ RatGT(structuralMatch[1].confidence, StructuralThreshold)
        THEN HealingResult(TRUE, original,
                           structuralMatch[1].element.selectors.css,
                           structuralMatch[1].confidence,
                           "structural-similarity")
        ELSE HealingResult(FALSE, original, Absent, FailedConfidence, "failed")

\* ------------------------------------------------------------------------
\* Collaborators of the orchestrator
\* ------------------------------------------------------------------------

\* the test suites whose records the persistent store holds
Scopes == { "suite-1", "suite-2" }

\* config.testSuiteId of the run
TestSuiteIds == { "suite-1" }

\* Action.description, the semantic key of the persistent store
Descriptions == { "Click login button", "Type email" }

StoreKeys == Scopes \X Descriptions

EmptyStore == [ k \in StoreKeys |-> None ]

StoredSelector(selector, selectorType) ==
    [ selector |-> selector, selectorType |-> selectorType ]

\* what earlier runs may have left in the store; the last one is the record
\* a run leaves whose step "Click login button" was healed to the element
\* with the css selector c0
InitStores ==
    { EmptyStore,
      [ EmptyStore EXCEPT ![<<"suite-1", "Type email">>] =
            Some(StoredSelector("t0", "testId")) ],
      [ EmptyStore EXCEPT ![<<"suite-2", "Click login button">>] =
            Some(StoredSelector("c1", "css")) ],
      [ EmptyStore EXCEPT ![<<"suite-1", "Click login button">>] =
            Some(StoredSelector("c0", "css")) ] }

\* the confidences the store may report for a record it returns
Confidences == { Rat(80, 100), Rat(85, 100), Rat(90, 100) }

\* findPersistentSelector: null when nothing is stored under the key,
\* otherwise the stored record with the confidence of the match
findPersistentSelector(st, testSuiteId_, description) ==
    IF st[<<testSuiteId_, description>>] = None THEN { None }
    ELSE { Some([ selector |-> st[<<testSuiteId_, description>>][1].selector,
                  selectorType |->
                      st[<<testSuiteId_, description>>][1].selectorType,
                  confidence |-> c ]) : c \in Confidences }

\* saveGoldenState and updatePersistentSelector: the record under the key is
\* created or replaced
WriteSelector(st, testSuiteId_, description, selector, selectorType_) ==
    [ st EXCEPT ![<<testSuiteId_, description>>] =
          Some(StoredSelector(selector, selectorType_)) ]

\* HealingResult.selectorType as the orchestrator reads it: healer.ts returns
\* the css selector of the match and sets no type, the orchestrator accepts
\* css, xpath and testId and falls back to css when the field is not set
HealedSelectorTypes == { "css", "xpath", "testId", Absent }

\* the decisions of the reasoning oracle
OracleActions ==
    { MkAction("click", "element-0", Absent, "Click login button"),
      MkAction("click", "element-1", Absent, "Click login button"),
      MkAction("type", "element-1", "v", "Type email"),
      MkAction("type", "element-0", Absent, "Type email"),
      MkAction("wait", Absent, Absent, "Click login button"),
      MkAction("click", "element-7", Absent, "Type email") }

\* the fields of a decision
DecisionFields == { "nextAction", "reasoning", "isGoalAchieved", "confidence" }

\* ThinkingResult.  A field that parseAIResponse copied from a property the
\* parsed value does not have is undefined: its name is in `undefined` and
\* its slot holds the falsy value the loop's tests see (null, no text, false,
\* 0).
ThinkingResult(nextAction, reasoning, isGoal, confidence, undefined) ==
    [ nextAction |-> nextAction, reasoning |-> reasoning,
      isGoalAchieved |-> isGoal, confidence |-> confidence,
      undefined |-> undefined ]

\* A response of the oracle, by what JSON.parse makes of it: kind "text" is
\* a string that is not JSON, kind "null" the JSON null, kind "object" a JSON
\* object that has the properties named in `present`.
Response(kind, present, nextAction, isGoal) ==
    [ kind |-> kind, present |-> present,
      nextAction |-> IF "nextAction" \in present THEN nextAction ELSE None,
      reasoning |-> IF "reasoning" \in present THEN "reasoning" ELSE Absent,
      isGoalAchieved |-> "isGoalAchieved" \in present /\ isGoal,
      confidence |-> IF "confidence" \in present THEN Rat(9, 10)
                     ELSE Rat(0, 1) ]

\* the responses that are decisions of the documented form
WellFormedResponses ==
    { Response("object", DecisionFields, None, g) : g \in BOOLEAN }
    \cup { Response("object", DecisionFields, Some(a), g) :
             a \in OracleActions, g \in BOOLEAN }

\* the responses that are not: no JSON at all, the JSON null, an empty
\* object, an object with nothing but the goal flag, an object with nothing
\* but an action (on an element that no page has)
MalformedResponses ==
    { Response("text", {}, None, FALSE),
      Response("null", {}, None, FALSE),
      Response("object", {}, None, FALSE),
      Response("object", { "isGoalAchieved" }, None, TRUE),
      Response("object", { "nextAction" },
               Some(MkAction("click", "element-7", Absent, "Type email")),
               FALSE) }

OracleResponses == WellFormedResponses \cup MalformedResponses

\* the safe default of parseAIResponse's catch block
SafeDefault ==
    ThinkingResult(None, "Failed to understand AI response", FALSE, Rat(0, 1),
                   {})

\* parseAIResponse: JSON.parse throws on a text that is not JSON, and reading
\* a property of null throws; both are caught and give the safe default.
\* Otherwise the four properties are copied as they are, a missing one as
\* undefined.
parseAIResponse(rsp) ==
    IF rsp.kind = "text" \/ rsp.kind = "null" THEN SafeDefault
    ELSE ThinkingResult(rsp.nextAction, rsp.reasoning, rsp.isGoalAchieved,
                        rsp.confidence, DecisionFields \ rsp.present)

\* think: the response of the oracle, parsed
think(rsp) == parseAIResponse(rsp)

\* ------------------------------------------------------------------------
\* Orchestrator: runAgentLoop
\* ------------------------------------------------------------------------

VARIABLES
    pc,                \* the await the run is suspended at, or "done"
    maxSteps,          \* config.maxSteps
    testSuiteId,       \* config.testSuiteId
    store,             \* the persistent store, shared across runs
    step,              \* the loop variable
    totalSteps, successfulSteps, failedSteps, healedSteps, isGoalAchieved,
    logs,
    snapshot,          \* snapshot.actionableElements of this step
    screenshot,        \* what page.screenshot returned or threw in this step
    thinkingResult, action, targetElement, knownSelector,
    response,          \* the response of the oracle that think parsed
    actionResult, healingResult, healedElement,
    healingAttempted, healingSuccessful, selectorUsed, selectorType,
    calls,             \* the collaborator calls made in this step, in order
    attempts,          \* the selector strategies the last act attempted
    driver,            \* what the browser did in the act under test
    text1, text2,      \* the texts given to calculateTextSimilarity
    similarity,        \* what calculateTextSimilarity returned for them
    result             \* what runAgentLoop returned, None while running

counters == << totalSteps, successfulSteps, failedSteps, healedSteps >>

\* the configuration of the run, and the inputs and outputs of the functions
\* that are exercised on their own; a run changes none of them
config == << maxSteps, testSuiteId, driver, text1, text2, similarity >>

locals == << snapshot, screenshot, thinkingResult, response, action,
             targetElement, knownSelector,
             actionResult, healingResult, healedElement, healingAttempted,
             healingSuccessful, selectorUsed, selectorType, calls, attempts >>

vars == << pc, maxSteps, testSuiteId, store, step, totalSteps, successfulSteps,
           failedSteps, healedSteps, isGoalAchieved, logs, snapshot,
           screenshot, thinkingResult, response, action, targetElement,
           knownSelector, actionResult,
           healingResult, healedElement, healingAttempted, healingSuccessful,
           selectorUsed, selectorType, calls, attempts, driver, text1, text2,
           similarity, result >>

\* one collaborator call of the current step
Call(op, scope, key, selector, type, target) ==
    [ op |-> op, scope |-> scope, key |-> key, selector |-> selector,
      selectorType |-> type, target |-> target ]

StepLog(stepNumber, act_, res, attempted, successful, reasoning, used, type) ==
    [ stepNumber |-> stepNumber, action |-> act_, result |-> res,
      healing |-> [ attempted |-> attempted, successful |-> successful ],
      reasoning |-> reasoning, selectorUsed |-> used, selectorType |-> type ]

\* AgentResult; totalCost is never changed from 0
AgentResult(success, error, total, successful, failed, healed, lg) ==
    [ success |-> success, error |-> error, totalSteps |-> total,
      successfulSteps |-> successful, failedSteps |-> failed,
      healedSteps |-> healed, totalCost |-> 0, logs |-> lg ]

\* ActionResult as act returns it (without the record of the attempts)
ResultOf(r) ==
    [ success |-> r.success, error |-> r.error, selectorUsed |-> r.selectorUsed ]

\* the block-scoped variables of one loop iteration before they are set
FreshLocals ==
    /\ snapshot' = <<>>
    /\ screenshot' = None
    /\ thinkingResult' = None
    /\ response' = None
    /\ action' = None
    /\ targetElement' = None
    /\ knownSelector' = None
    /\ actionResult' = None
    /\ healingResult' = None
    /\ healedElement' = None
    /\ healingAttempted' = FALSE
    /\ healingSuccessful' = FALSE
    /\ selectorUsed' = Absent
    /\ selectorType' = "css"
    /\ calls' = <<>>
    /\ attempts' = <<>>

Init ==
    /\ pc = "start"
    /\ maxSteps \in (-1)..MaxStepsBound
    /\ testSuiteId \in TestSuiteIds
    /\ store \in InitStores
    /\ step = 0
    /\ totalSteps = 0
    /\ successfulSteps = 0
    /\ failedSteps = 0
    /\ healedSteps = 0
    /\ isGoalAchieved = FALSE
    /\ logs = <<>>
    /\ snapshot = <<>>
    /\ screenshot = None
    /\ thinkingResult = None
    /\ response = None
    /\ action = None
    /\ targetElement = None
    /\ knownSelector = None
    /\ actionResult = None
    /\ healingResult = None
    /\ healedElement = None
    /\ healingAttempted = FALSE
    /\ healingSuccessful = FALSE
    /\ selectorUsed = Absent
    /\ selectorType = "css"
    /\ calls = <<>>
    /\ attempts = <<>>
    /\ driver = None
    /\ text1 = <<>>
    /\ text2 = <<>>
    /\ similarity = None
    /\ result = None

\* the catch block of runAgentLoop when it swallows the exception but loses
\* the counters (a mutant of CatchBlock)
CatchBlockResetsCounters(message) ==
    Some(AgentResult(FALSE, message, 0, 0, 0, 0, <<>>))

\* the catch block of runAgentLoop: the result built from the counters and
\* the logs as they are when the exception arrives
CatchBlock(message) ==
    Some(AgentResult(FALSE, message, totalSteps, successfulSteps, failedSteps,
                     healedSteps, logs))

\* an awaited collaborator throws inside the try block
Fatal(message) ==
    /\ pc' = "done"
    /\ result' = CatchBlock(message)
    /\ UNCHANGED << config, store, step, counters, isGoalAchieved, logs,
                    locals >>

\* a mutant of ReturnResult: the run counts as a success when no step failed
ReturnResultSuccessIfNoFailure(total, successful, failed, healed, goal, lg) ==
    /\ pc' = "done"
    /\ result' = Some(AgentResult(failed = 0, Absent, total, successful,
                                  failed, healed, lg))

\* the return after the loop
ReturnResult(total, successful, failed, healed, goal, lg) ==
    /\ pc' = "done"
    /\ result' = Some(AgentResult(goal, Absent, total, successful, failed,
                                  healed, lg))

\* a mutant of LoopCondition: one iteration more than config.maxSteps
LoopConditionOneMore(s) == s <= maxSteps + 1

\* the condition of the for loop: step <= config.maxSteps
LoopCondition(s) == s <= maxSteps

\* the loop head, for (step = s; step <= config.maxSteps; ...) with
\* totalSteps = step as the first statement of the body
EnterLoop(s) ==
    /\ step' = s
    /\ IF LoopCondition(s)
       THEN /\ totalSteps' = s
            /\ pc' = "observe"
            /\ result' = result
       ELSE /\ totalSteps' = totalSteps
            /\ ReturnResult(totalSteps, successfulSteps, failedSteps,
                            healedSteps, isGoalAchieved, logs)
    /\ FreshLocals
    /\ UNCHANGED << config, store, successfulSteps, failedSteps, healedSteps,
                    isGoalAchieved, logs >>

\* page.goto(config.startUrl) and waitForPageStable before the loop
Start ==
    /\ pc = "start"
    /\ \/ Fatal("navigation failed")
       \/ EnterLoop(1)

\* the message of the exception of page.screenshot
ScreenshotFailed == "screenshot failed"

\* captureSnapshot: page.title and page.content, page.screenshot,
\* extractActionableElements.  None of the awaits is inside a try, so the
\* exception of page.screenshot is the exception of captureSnapshot, as the
\* exception of any of the others; the snapshot is returned when none threw.
Observe ==
    /\ pc = "observe"
    /\ \/ Fatal("snapshot failed")
       \/ /\ screenshot' = Some(ScreenshotFailed)
          /\ pc' = "done"
          /\ result' = CatchBlock(ScreenshotFailed)
          /\ UNCHANGED snapshot
          /\ UNCHANGED << config, store, step, counters, isGoalAchieved, logs,
                          thinkingResult, response, action, targetElement,
                          knownSelector,
                          actionResult, healingResult, healedElement,
                          healingAttempted, healingSuccessful, selectorUsed,
                          selectorType, calls, attempts >>
       \/ /\ \E page \in Pages : snapshot' = page
          /\ screenshot' = Some("base64")
          /\ pc' = "think"
          /\ UNCHANGED << config, store, step, counters, isGoalAchieved, logs,
                          thinkingResult, response, action, targetElement,
                          knownSelector,
                          actionResult, healingResult, healedElement,
                          healingAttempted, healingSuccessful, selectorUsed,
                          selectorType, calls, attempts, result >>

\* a mutant of Decide: a decision without an action counts as the goal
\* being achieved
DecideNoActionIsGoal(tr) ==
    IF tr.isGoalAchieved \/ tr.nextAction = None THEN "goal"
    ELSE "act"

\* a mutant of Decide: the missing action is tested before the goal flag
DecideStuckFirst(tr) ==
    IF tr.nextAction = None THEN "stuck"
    ELSE IF tr.isGoalAchieved THEN "goal"
    ELSE "act"

\* what the loop does with a ThinkingResult: the goal flag is tested first,
\* then the missing action
Decide(tr) ==
    IF tr.isGoalAchieved THEN "goal"
    ELSE IF tr.nextAction = None THEN "stuck"
    ELSE "act"

\* think, and the statements up to the next await or the return
Think ==
    /\ pc = "think"
    /\ \/ Fatal("oracle failed")
       \/ \E rsp \in OracleResponses : \E tr \in { think(rsp) } :
            /\ response' = Some(rsp)
            /\ thinkingResult' = Some(tr)
            /\ UNCHANGED << config, store, step, totalSteps, successfulSteps,
                            healedSteps, snapshot, screenshot, knownSelector, actionResult,
                            healingResult, healedElement, healingAttempted,
                            healingSuccessful, selectorUsed, selectorType,
                            calls, attempts >>
            /\ CASE Decide(tr) = "goal" ->
                    /\ isGoalAchieved' = TRUE
                    /\ logs' = Append(logs,
                           StepLog(step, None, None, FALSE, FALSE, tr.reasoning,
                                   Absent, Absent))
                    /\ ReturnResult(totalSteps, successfulSteps, failedSteps,
                                    healedSteps, TRUE, logs')
                    /\ UNCHANGED << failedSteps, action, targetElement >>
                 [] Decide(tr) = "stuck" ->
                    /\ failedSteps' = failedSteps + 1
                    /\ logs' = Append(logs,
                           StepLog(step, None, None, FALSE, FALSE,
                                   "AI couldn't determine next action",
                                   Absent, Absent))
                    /\ ReturnResult(totalSteps, successfulSteps, failedSteps',
                                    healedSteps, isGoalAchieved, logs')
                    /\ UNCHANGED << isGoalAchieved, action, targetElement >>
                 [] OTHER ->
                    LET next == tr.nextAction[1]
                        found == FindById(snapshot, next.targetElementId)
                    IN  /\ action' = Some(next)
                        /\ targetElement' = found
                        /\ isGoalAchieved' = isGoalAchieved
                        /\ IF found = None
                           THEN /\ failedSteps' = failedSteps + 1
                                /\ logs' = Append(logs,
                                       StepLog(step, Some(next), None, FALSE,
                                           FALSE,
                                           "Target element not found in snapshot",
                                           Absent, Absent))
                                /\ ReturnResult(totalSteps, successfulSteps,
                                       failedSteps', healedSteps,
                                       isGoalAchieved, logs')
                           ELSE /\ pc' = "embed"
                                /\ UNCHANGED << failedSteps, logs, result >>

\* generateActionEmbedding
Embed ==
    /\ pc = "embed"
    /\ \/ Fatal("embedding failed")
       \/ /\ pc' = "lookup"
          /\ UNCHANGED << config, store, step, counters, isGoalAchieved, logs,
                          locals, result >>

\* a mutant of UsePersistentSelector: the threshold is included
UsePersistentSelectorAtLeast(known) ==
    known # None /\ ~RatGT(Rat(85, 100), known[1].confidence)

\* the gate of the memory pre-check: knownSelector.confidence > 0.85
UsePersistentSelector(known) ==
    known # None /\ RatGT(known[1].confidence, Rat(85, 100))

\* a mutant of FindBySelector: the selector type of the record is ignored
\* and every selector is looked up as a css selector
FindBySelectorCssOnly(elements, selector, type) ==
    FirstOf(elements,
        { i \in 1..Len(elements) : elements[i].selectors.css = selector })

\* the element of the snapshot that carries the stored selector, by type
FindBySelector(elements, selector, type) ==
    FirstOf(elements,
        { i \in 1..Len(elements) :
            CASE type = "css"    -> elements[i].selectors.css = selector
              [] type = "xpath"  -> elements[i].selectors.xpath = selector
              [] type = "testId" -> elements[i].selectors.testId = selector
              [] type = "aria"   -> elements[i].selectors.ariaLabel = selector
              [] OTHER           -> FALSE })

\* a mutant of LookupKey: the records are keyed by the description alone,
\* every run reads and writes the records of the first other test suite
LookupKeySharedScope ==
    << CHOOSE other \in Scopes : other # testSuiteId, action[1].description >>

\* a mutant of LookupKey: the records are not keyed by the description
LookupKeyFixedDescription == << testSuiteId, "Click login button" >>

\* the key of every read and write of the persistent store in a step
LookupKey == << testSuiteId, action[1].description >>

\* findPersistentSelector and the remapping of the target
Lookup ==
    /\ pc = "lookup"
    /\ \/ Fatal("store lookup failed")
       \/ \E known \in findPersistentSelector(store, LookupKey[1], LookupKey[2]) :
            LET carrier == IF UsePersistentSelector(known)
                           THEN FindBySelector(snapshot, known[1].selector,
                                               known[1].selectorType)
                           ELSE None
            IN  /\ knownSelector' = known
                /\ calls' = Append(calls,
                       Call("find", LookupKey[1], LookupKey[2], Absent, Absent,
                            Absent))
                /\ IF carrier # None
                   THEN /\ targetElement' = carrier
                        /\ action' = Some([ action[1] EXCEPT
                               !.targetElementId = carrier[1].id ])
                   ELSE UNCHANGED << targetElement, action >>
                /\ pc' = "act"
                /\ UNCHANGED << config, store, step, counters, isGoalAchieved,
                                logs, snapshot, screenshot, thinkingResult, response,
                                actionResult,
                                healingResult, healedElement, healingAttempted,
                                healingSuccessful, selectorUsed, selectorType,
                                attempts, result >>

\* a mutant of StopAfter: the loop goes on after a failed step
StopAfterNever(ar) == FALSE

\* the break after a step whose action failed and could not be healed
StopAfter(ar) == ~ar.success

\* a mutant of FinishStep: the log entry carries the selector whether the
\* action succeeded or not
FinishStepWithSelector(ar, attempted, successful, used, type, healed) ==
    LET ok == IF ar.success THEN successfulSteps + 1 ELSE successfulSteps
        ko == IF ar.success THEN failedSteps ELSE failedSteps + 1
        lg == Append(logs,
                  StepLog(step, action, Some(ar), attempted, successful,
                          thinkingResult[1].reasoning, used, type))
    IN  /\ successfulSteps' = ok
        /\ failedSteps' = ko
        /\ logs' = lg
        /\ IF StopAfter(ar)
           THEN ReturnResult(totalSteps, ok, ko, healed, isGoalAchieved, lg)
           ELSE pc' = "stable" /\ result' = result

\* "Track results", the step's log entry, and the break or the continuation
\* to waitForPageStable; healed is the value of healedSteps after this step
FinishStep(ar, attempted, successful, used, type, healed) ==
    LET ok == IF ar.success THEN successfulSteps + 1 ELSE successfulSteps
        ko == IF ar.success THEN failedSteps ELSE failedSteps + 1
        lg == Append(logs,
                  StepLog(step, action, Some(ar), attempted, successful,
                          thinkingResult[1].reasoning,
                          IF ar.success THEN used ELSE Absent,
                          IF ar.success THEN type ELSE Absent))
    IN  /\ successfulSteps' = ok
        /\ failedSteps' = ko
        /\ logs' = lg
        /\ IF StopAfter(ar)
           THEN ReturnResult(totalSteps, ok, ko, healed, isGoalAchieved, lg)
           ELSE pc' = "stable" /\ result' = result

\* selectorUsed and selectorType as declared before the healing block:
\* targetElement.selectors.css || targetElement.selectors.xpath || "", "css"
DeclaredSelector(element) ==
    [ selector |-> IF element.selectors.css # Absent THEN element.selectors.css
                   ELSE element.selectors.xpath,
      selectorType |-> "css" ]

\* the first act of the step
Act ==
    /\ pc = "act"
    /\ \E drv \in DriverOutcomes :
         LET r == act(action[1], snapshot, drv)
         IN  /\ actionResult' = Some(ResultOf(r))
             /\ attempts' = r.tried
             /\ calls' = Append(calls,
                    Call("act", Absent, Absent, Absent, Absent,
                         action[1].targetElementId))
             /\ selectorUsed' = DeclaredSelector(targetElement[1]).selector
             /\ selectorType' = DeclaredSelector(targetElement[1]).selectorType
             /\ healingAttempted' = ~r.success
             /\ pc' = IF r.success THEN "goldEmbed" ELSE "heal"
             /\ UNCHANGED << config, store, step, counters, isGoalAchieved,
                             logs, snapshot, screenshot, thinkingResult, response, action,
                             targetElement, knownSelector, healingResult,
                             healedElement, healingSuccessful, result >>

\* healSelector, the search for the healed element, and either the re-act
\* or the end of the step
Heal ==
    /\ pc = "heal"
    /\ \E type \in HealedSelectorTypes :
         LET hr == healSelector(targetElement[1], snapshot)
             el == IF hr.healed /\ hr.healedSelector # Absent
                   THEN FindBySelector(snapshot, hr.healedSelector,
                            IF type = "aria" THEN Absent ELSE type)
                   ELSE None
         IN  /\ healingResult' =
                    Some([ healed |-> hr.healed,
                           originalSelector |-> hr.originalSelector,
                           healedSelector |-> hr.healedSelector,
                           confidence |-> hr.confidence,
                           method |-> hr.method,
                           selectorType |-> type ])
             /\ healedElement' = el
             /\ calls' = Append(calls,
                    Call("heal", Absent, Absent, Absent, Absent,
                         targetElement[1].id))
             /\ UNCHANGED << config, store, step, totalSteps, healedSteps,
                             isGoalAchieved, snapshot, screenshot, thinkingResult,
                             response, action,
                             targetElement, knownSelector, actionResult,
                             healingAttempted, healingSuccessful, selectorUsed,
                             selectorType, attempts >>
             /\ IF el # None
                THEN /\ pc' = "react"
                     /\ UNCHANGED << successfulSteps, failedSteps, logs,
                                     result >>
                ELSE FinishStep(actionResult[1], TRUE, FALSE, selectorUsed,
                                selectorType, healedSteps)

\* a mutant of PersistHealed: every successful heal is persisted
PersistHealedAlways(method) == TRUE

\* whether a successful heal is written to the persistent store
PersistHealed(method) ==
    method = "text-similarity" \/ method = "structural-similarity"

\* healingResult.selectorType || "css"
HealedType == IF healingResult[1].selectorType = Absent THEN "css"
              ELSE healingResult[1].selectorType

\* a mutant of HealedCount: a healed step is not counted
HealedCountUnchanged == healedSteps

\* healedSteps++ after a successful re-act
HealedCount == healedSteps + 1

\* the re-act on the healed element
React ==
    /\ pc = "react"
    /\ \E drv \in DriverOutcomes :
         LET r == act([ action[1] EXCEPT
                          !.targetElementId = healedElement[1].id ],
                      snapshot, drv)
         IN  /\ actionResult' = Some(ResultOf(r))
             /\ attempts' = r.tried
             /\ calls' = Append(calls,
                    Call("act", Absent, Absent, Absent, Absent,
                         healedElement[1].id))
             /\ healingSuccessful' = r.success
             /\ healedSteps' = IF r.success THEN HealedCount ELSE healedSteps
             /\ UNCHANGED << config, store, step, totalSteps, isGoalAchieved,
                             snapshot, screenshot, thinkingResult, response, action,
                             targetElement,
                             knownSelector, healingResult, healedElement,
                             healingAttempted >>
             /\ IF r.success /\ PersistHealed(healingResult[1].method)
                THEN /\ pc' = "healEmbed"
                     /\ UNCHANGED << successfulSteps, failedSteps, logs,
                                     selectorUsed, selectorType, result >>
                ELSE /\ selectorUsed' = IF r.success
                                        THEN healingResult[1].healedSelector
                                        ELSE selectorUsed
                     /\ selectorType' = IF r.success THEN HealedType
                                        ELSE selectorType
                     /\ FinishStep(ResultOf(r), TRUE, r.success, selectorUsed',
                                   selectorType', healedSteps')

\* generateElementEmbedding(healedElement)
HealEmbed ==
    /\ pc = "healEmbed"
    /\ \/ Fatal("embedding failed")
       \/ /\ pc' = "healUpdate"
          /\ UNCHANGED << config, store, step, counters, isGoalAchieved, logs,
                          locals, result >>

\* updatePersistentSelector with the healed selector, then the end of the step
HealUpdate ==
    /\ pc = "healUpdate"
    /\ \/ Fatal("store update failed")
       \/ /\ store' = WriteSelector(store, LookupKey[1], LookupKey[2],
                          healingResult[1].healedSelector, HealedType)
          /\ calls' = Append(calls,
                 Call("update", LookupKey[1], LookupKey[2],
                      healingResult[1].healedSelector, HealedType, Absent))
          /\ selectorUsed' = healingResult[1].healedSelector
          /\ selectorType' = HealedType
          /\ FinishStep(actionResult[1], TRUE, TRUE, selectorUsed',
                        selectorType', healedSteps)
          /\ UNCHANGED << config, step, totalSteps, healedSteps, isGoalAchieved,
                          snapshot, screenshot, thinkingResult, response, action,
                          targetElement,
                          knownSelector, actionResult, healingResult,
                          healedElement, healingAttempted, healingSuccessful,
                          attempts >>

\* a mutant of GoldEmbed: the exception of generateElementEmbedding is not
\* caught inside the step
GoldEmbedUncaught ==
    /\ pc = "goldEmbed"
    /\ \/ /\ pc' = "goldSave"
          /\ UNCHANGED << config, store, step, counters, isGoalAchieved, logs,
                          locals, result >>
       \/ Fatal("embedding failed")

\* generateElementEmbedding(targetElement) inside the inner try: a failure is
\* caught and the golden state is not saved
GoldEmbed ==
    /\ pc = "goldEmbed"
    /\ \/ /\ pc' = "goldSave"
          /\ UNCHANGED << config, store, step, counters, isGoalAchieved, logs,
                          locals, result >>
       \/ /\ FinishStep(actionResult[1], FALSE, FALSE, selectorUsed,
                        selectorType, healedSteps)
          /\ UNCHANGED << config, store, step, totalSteps, healedSteps,
                          isGoalAchieved, locals >>

\* saveGoldenState inside the inner try, then the end of the step
GoldSave ==
    /\ pc = "goldSave"
    /\ \/ /\ store' = WriteSelector(store, LookupKey[1], LookupKey[2],
                          selectorUsed, selectorType)
          /\ calls' = Append(calls,
                 Call("save", LookupKey[1], LookupKey[2], selectorUsed,
                      selectorType, targetElement[1].id))
       \/ UNCHANGED << store, calls >>
    /\ FinishStep(actionResult[1], FALSE, FALSE, selectorUsed, selectorType,
                  healedSteps)
    /\ UNCHANGED << config, step, totalSteps, healedSteps, isGoalAchieved,
                    snapshot, screenshot, thinkingResult, response, action, targetElement,
                    knownSelector, actionResult, healingResult, healedElement,
                    healingAttempted, healingSuccessful, selectorUsed,
                    selectorType, attempts >>

\* waitForPageStable after a successful step (it swallows its own timeout),
\* then the next iteration
Stable ==
    /\ pc = "stable"
    /\ EnterLoop(step + 1)

Next ==
    \/ Start
    \/ Observe
    \/ Think
    \/ Embed
    \/ Lookup
    \/ Act
    \/ Heal
    \/ React
    \/ HealEmbed
    \/ HealUpdate
    \/ GoldEmbed
    \/ GoldSave
    \/ Stable

Spec == Init /\ [][Next]_vars

\* largest config.maxSteps of a run that is followed to its end
MaxFairSteps == 1

InitFair ==
    /\ Init
    /\ maxSteps \in (-1)..MaxFairSteps

\* The run with every awaited call settling: the browser, the oracle, the
\* embedding service and the store return or throw, so the step the run is
\* suspended at is eventually taken.
FairSpec == InitFair /\ [][Next]_vars /\ WF_vars(Next)

\* ------------------------------------------------------------------------
\* The Actor on its own: act applied to every kind of action and element
\* ------------------------------------------------------------------------

\* the element lists act is given: a first element with every selector and
\* a second one with any combination of testId, css and xpath
ActorSnapshots ==
    { << Element("element-0", "button", <<"O", "k">>, <<>>, Undefined,
                 Undefined, "c0", "x0", "t0"),
         Element("element-1", "button", <<"G", "o">>, <<>>, Undefined,
                 Undefined, css, xpath, testId) >> :
      css \in { Absent, "c1" }, xpath \in { Absent, "x1" },
      testId \in { Absent, "t1" } }

ActorActions ==
    { MkAction(type, target, value, "Click login button") :
        type \in ActionTypes, target \in { "element-1", "element-7" },
        value \in { Absent, "v" } }

InitActor ==
    /\ pc = "actor"
    /\ maxSteps = 0
    /\ testSuiteId = "suite-1"
    /\ store = EmptyStore
    /\ step = 0
    /\ totalSteps = 0
    /\ successfulSteps = 0
    /\ failedSteps = 0
    /\ healedSteps = 0
    /\ isGoalAchieved = FALSE
    /\ logs = <<>>
    /\ snapshot \in ActorSnapshots
    /\ screenshot = None
    /\ thinkingResult = None
    /\ response = None
    /\ action \in { Some(a) : a \in ActorActions }
    /\ targetElement = None
    /\ knownSelector = None
    /\ actionResult = None
    /\ healingResult = None
    /\ healedElement = None
    /\ healingAttempted = FALSE
    /\ healingSuccessful = FALSE
    /\ selectorUsed = Absent
    /\ selectorType = "css"
    /\ calls = <<>>
    /\ attempts = <<>>
    /\ driver = None
    /\ text1 = <<>>
    /\ text2 = <<>>
    /\ similarity = None
    /\ result = None

\* one call of act
ActorAct ==
    /\ pc = "actor"
    /\ \E drv \in DriverOutcomes :
         LET r == act(action[1], snapshot, drv)
         IN  /\ driver' = Some(drv)
             /\ actionResult' = Some(ResultOf(r))
             /\ attempts' = r.tried
    /\ pc' = "actorDone"
    /\ UNCHANGED << maxSteps, testSuiteId, store, step, counters,
                    isGoalAchieved, logs, snapshot, screenshot, thinkingResult, response,
                    action,
                    targetElement, knownSelector, healingResult, healedElement,
                    healingAttempted, healingSuccessful, selectorUsed,
                    selectorType, calls, text1, text2, similarity, result >>

NextActor == ActorAct

SpecActor == InitActor /\ [][NextActor]_vars

\* ------------------------------------------------------------------------
\* The Healer on its own: healSelector applied to a broken element and a
\* list of current elements
\* ------------------------------------------------------------------------

\* the longest list of current elements healSelector is given
MaxCandidates == 2

Okay == << "O", "k", "a", "y" >>

\* the texts of the current elements: none, the broken element's text, a
\* prefix of it (0.75), a shorter prefix (0.5), the same text in upper case
HealerTexts == { <<>>, Okay, << "O", "k", "a" >>, << "O", "k" >>,
                 << "O", "K", "A", "Y" >> }

HealerClasses == { <<>>, << "c" >>, << "a" >> }

\* what distinguishes one current element from another for the Healer: the
\* buttons with the broken element's name, a button with another name, and
\* an element with another tag name
HealerKinds ==
    [ tag : { "button" }, text : HealerTexts, cls : HealerClasses,
      name : { "q" } ]
    \cup [ tag : { "button" }, text : { <<>> }, cls : { << "c" >> },
           name : { "r" } ]
    \cup [ tag : { "input" }, text : { Okay }, cls : { <<>> }, name : { "q" } ]

\* the element of kind k captured at position i of the snapshot
HealerElement(k, i) ==
    Element(<< "element", i >>, k.tag, k.text, k.cls, Undefined, k.name,
            << "css", i >>, << "xpath", i >>, Absent)

\* the lists of n current elements, of every kind each
HealerSnapshots(n) ==
    { [ i \in 1..n |-> HealerElement(kinds[i], i) ] :
        kinds \in [ 1..n -> HealerKinds ] }

\* the broken elements: a button with or without text, without classes,
\* with two classes or with four
BrokenElements ==
    { Element(<< "element", 0 >>, "button", text, cls, Undefined, "q",
              << "css", 0 >>, << "xpath", 0 >>, Absent) :
        text \in { <<>>, Okay },
        cls \in { <<>>, << "a", "b" >>, << "a", "b", "d", "e" >> } }

InitHealer ==
    /\ pc = "healer"
    /\ maxSteps = 0
    /\ testSuiteId = "suite-1"
    /\ store = EmptyStore
    /\ step = 0
    /\ totalSteps = 0
    /\ successfulSteps = 0
    /\ failedSteps = 0
    /\ healedSteps = 0
    /\ isGoalAchieved = FALSE
    /\ logs = <<>>
    /\ \E n \in 0..MaxCandidates : snapshot \in HealerSnapshots(n)
    /\ screenshot = None
    /\ thinkingResult = None
    /\ response = None
    /\ action = None
    /\ targetElement \in { Some(b) : b \in BrokenElements }
    /\ knownSelector = None
    /\ actionResult = None
    /\ healingResult = None
    /\ healedElement = None
    /\ healingAttempted = FALSE
    /\ healingSuccessful = FALSE
    /\ selectorUsed = Absent
    /\ selectorType = "css"
    /\ calls = <<>>
    /\ attempts = <<>>
    /\ driver = None
    /\ text1 = <<>>
    /\ text2 = <<>>
    /\ similarity = None
    /\ result = None

\* one call of healSelector
HealerHeal ==
    /\ pc = "healer"
    /\ healingResult' = Some(healSelector(targetElement[1], snapshot))
    /\ pc' = "healerDone"
    /\ UNCHANGED << config, store, step, counters, isGoalAchieved, logs,
                    snapshot, screenshot, thinkingResult, response, action, targetElement,
                    knownSelector, actionResult, healedElement,
                    healingAttempted, healingSuccessful, selectorUsed,
                    selectorType, calls, attempts, result >>

NextHealer == HealerHeal

SpecHealer == InitHealer /\ [][NextHealer]_vars

\* ------------------------------------------------------------------------
\* calculateTextSimilarity on its own
\* ------------------------------------------------------------------------

\* the longest text of the exhaustive part of the inputs
MaxTextLen == 3

\* the code units of the texts: a lower-case and an upper-case letter, white
\* space, and a letter whose lower case is two code units long
TextAlphabet == { "a", "B", " ", DottedCapitalI }

Submit == << "S", "u", "b", "m", "i", "t" >>

\* every text of at most n code units, and "Submit"
Texts(n) ==
    UNION { [ 1..k -> TextAlphabet ] : k \in 0..n } \cup { Submit }

InitSimilarity ==
    /\ pc = "similarity"
    /\ maxSteps = 0
    /\ testSuiteId = "suite-1"
    /\ store = EmptyStore
    /\ step = 0
    /\ totalSteps = 0
    /\ successfulSteps = 0
    /\ failedSteps = 0
    /\ healedSteps = 0
    /\ isGoalAchieved = FALSE
    /\ logs = <<>>
    /\ snapshot = <<>>
    /\ screenshot = None
    /\ thinkingResult = None
    /\ response = None
    /\ action = None
    /\ targetElement = None
    /\ knownSelector = None
    /\ actionResult = None
    /\ healingResult = None
    /\ healedElement = None
    /\ healingAttempted = FALSE
    /\ healingSuccessful = FALSE
    /\ selectorUsed = Absent
    /\ selectorType = "css"
    /\ calls = <<>>
    /\ attempts = <<>>
    /\ driver = None
    /\ text1 \in Texts(MaxTextLen)
    /\ text2 \in Texts(MaxTextLen)
    /\ similarity = None
    /\ result = None

\* one call of calculateTextSimilarity
Similarity ==
    /\ pc = "similarity"
    /\ similarity' = Some(calculateTextSimilarity(text1, text2))
    /\ pc' = "similarityDone"
    /\ UNCHANGED << maxSteps, testSuiteId, driver, text1, text2, store, step,
                    counters, isGoalAchieved, logs, locals, result >>

NextSimilarity == Similarity

SpecSimilarity == InitSimilarity /\ [][NextSimilarity]_vars

\* ------------------------------------------------------------------------
\* The structural scorer on its own: one target and one candidate
\* ------------------------------------------------------------------------

\* an element with the attributes the scorer reads
ScorerElement(id, tag, cls, type, name, placeholder) ==
    [ Element(id, tag, <<>>, cls, type, name, << "css", id >>,
              << "xpath", id >>, Absent)
        EXCEPT !.attributes.placeholder = placeholder ]

\* the targets: a button with no class, one or two, and each of type, name
\* and placeholder absent or present
ScorerTargets ==
    { ScorerElement(0, "button", cls, type, name, placeholder) :
        cls \in { <<>>, << "a" >>, << "a", "b" >> },
        type \in { Undefined, "submit" },
        name \in { Undefined, "q" },
        placeholder \in { Undefined, "p" } }

\* the candidates: of the target's tag name or another, and each attribute
\* absent, the target's or another value
ScorerCandidates ==
    { ScorerElement(1, tag, cls, type, name, placeholder) :
        tag \in { "button", "input" },
        cls \in { <<>>, << "a" >> },
        type \in { Undefined, "submit", "reset" },
        name \in { Undefined, "q", "r" },
        placeholder \in { Undefined, "p", "s" } }

InitScorer ==
    /\ pc = "scorer"
    /\ maxSteps = 0
    /\ testSuiteId = "suite-1"
    /\ store = EmptyStore
    /\ step = 0
    /\ totalSteps = 0
    /\ successfulSteps = 0
    /\ failedSteps = 0
    /\ healedSteps = 0
    /\ isGoalAchieved = FALSE
    /\ logs = <<>>
    /\ snapshot \in { << c >> : c \in ScorerCandidates }
    /\ screenshot = None
    /\ thinkingResult = None
    /\ response = None
    /\ action = None
    /\ targetElement \in { Some(t) : t \in ScorerTargets }
    /\ knownSelector = None
    /\ actionResult = None
    /\ healingResult = None
    /\ healedElement = None
    /\ healingAttempted = FALSE
    /\ healingSuccessful = FALSE
    /\ selectorUsed = Absent
    /\ selectorType = "css"
    /\ calls = <<>>
    /\ attempts = <<>>
    /\ driver = None
    /\ text1 = <<>>
    /\ text2 = <<>>
    /\ similarity = None
    /\ result = None

\* one turn of the loop of findByStructuralSimilarity: a candidate with
\* another tag name is skipped, any other gets its confidence
Score ==
    /\ pc = "scorer"
    /\ similarity' =
           IF snapshot[1].tagName # targetElement[1].tagName THEN None
           ELSE Some(StructuralScore(targetElement[1], snapshot[1]))
    /\ pc' = "scorerDone"
    /\ UNCHANGED << maxSteps, testSuiteId, driver, text1, text2, store, step,
                    counters, isGoalAchieved, logs, locals, result >>

NextScorer == Score

SpecScorer == InitScorer /\ [][NextScorer]_vars

\* ------------------------------------------------------------------------
\* A run next to a concurrent run of another test suite
\* ------------------------------------------------------------------------

\* largest config.maxSteps of a run that is interleaved with another run
MaxConcurrentSteps == 1

\* the css selectors the other run's elements have
OtherSelectors == { "c0", "c1" }

\* What a concurrent run of runAgentLoop with another config.testSuiteId does
\* to the state the runs share: its saveGoldenState and
\* updatePersistentSelector calls write records under its own testSuiteId
\* and the description of its action, at any moment between two awaits of
\* this run.
OtherRunWrites ==
    /\ \E other \in Scopes \ { testSuiteId }, description \in Descriptions,
          selector \in OtherSelectors :
            store' = WriteSelector(store, other, description, selector, "css")
    /\ UNCHANGED << pc, config, step, counters, isGoalAchieved, logs, locals,
                    result >>

InitScopes ==
    /\ Init
    /\ maxSteps \in 1..MaxConcurrentSteps

NextScopes ==
    \/ Next
    \/ OtherRunWrites

SpecScopes == InitScopes /\ [][NextScopes]_vars

\* ------------------------------------------------------------------------
\* Properties of the orchestrator
\* ------------------------------------------------------------------------

\* the calls of the current step made with operation op
CallsOf(op) == { i \in 1..Len(calls) : calls[i].op = op }

\* a log entry of a step whose action was decided and did not succeed
UnhealedFailure(entry) ==
    /\ entry.action # None
    /\ (entry.result = None \/ ~entry.result[1].success)

\* C1: the loop stops at the first unhealed failure.  Whenever a step with a
\* decided action ends without a successful act or re-act, its log entry is
\* the last one, the run has returned with success = false and
\* failedSteps = 1, totalSteps is the number of that step, and no later step
\* is started; in particular a failure in step 1 gives totalSteps = 1
\* whatever maxSteps is.
C1_StopsAtFirstUnhealedFailure ==
    \A k \in 1..Len(logs) :
        UnhealedFailure(logs[k]) =>
            /\ k = Len(logs)
            /\ pc = "done"
            /\ step = k
            /\ result # None
            /\ result[1].success = FALSE
            /\ result[1].failedSteps = 1
            /\ result[1].totalSteps = k
            /\ result[1].logs = logs

\* step 1 of a run with maxSteps >= 2: the act failed, the healer proposed an
\* element, the re-act failed too, and the run is over
C1_Witness ==
    /\ pc = "done"
    /\ maxSteps >= 2
    /\ Len(logs) = 1
    /\ UnhealedFailure(logs[1])
    /\ logs[1].healing.attempted
    /\ Cardinality(CallsOf("act")) = 2
    /\ result[1].totalSteps = 1

\* C2: when the oracle signals isGoalAchieved = true in step k, the run
\* returns success = true with totalSteps = k and k-1 successful steps, the
\* last log entry has action = null and result = null, and the Actor is not
\* called in step k.
C2_GoalAchieved ==
    (thinkingResult # None /\ thinkingResult[1].isGoalAchieved) =>
        /\ pc = "done"
        /\ result # None
        /\ result[1].success = TRUE
        /\ result[1].error = Absent
        /\ result[1].totalSteps = step
        /\ result[1].successfulSteps = step - 1
        /\ result[1].failedSteps = 0
        /\ Len(result[1].logs) = step
        /\ result[1].logs[step].stepNumber = step
        /\ result[1].logs[step].action = None
        /\ result[1].logs[step].result = None
        /\ CallsOf("act") = {}

\* the goal is signalled in step 2, after one successful action step
C2_Witness ==
    /\ pc = "done"
    /\ step = 2
    /\ thinkingResult # None
    /\ thinkingResult[1].isGoalAchieved
    /\ result[1].success
    /\ Len(logs) = 2
    /\ logs[1].result # None

NoException == ~(pc' = "done" /\ result' # None /\ result'[1].error # Absent)

ActorTarget == FindById(snapshot, action[1].targetElementId)

\* testId, css, xpath in this order, without the ones the element lacks
PresentStrategies(element) ==
    SelectSeq(<< [ type |-> "testId", value |-> element.selectors.testId ],
                 [ type |-> "css", value |-> element.selectors.css ],
                 [ type |-> "xpath", value |-> element.selectors.xpath ] >>,
              LAMBDA s : s.value # Absent)

IsClickOrType == action[1].type = "click" \/ action[1].type = "type"

\* C5: click and type attempt the strategies in the order testId, css,
\* xpath.  The attempts made are an initial part of the element's present
\* strategies in that order (an absent one is skipped), and each strategy is
\* attempted only after the attempt before it has failed.
C5_StrategyOrder ==
    (pc = "actorDone" /\ IsClickOrType /\ ActorTarget # None) =>
        LET present == PresentStrategies(ActorTarget[1])
        IN  /\ Len(attempts) <= Len(present)
            /\ \A i \in 1..Len(attempts) : attempts[i] = present[i]
            /\ \A i \in 2..Len(attempts) :
                   ~driver[1].strategy[attempts[i - 1].type]

\* an element with all three selectors: testId and css failed, xpath was
\* attempted last
C5_Witness ==
    /\ pc = "actorDone"
    /\ IsClickOrType
    /\ ActorTarget # None
    /\ Len(attempts) = 3
    /\ attempts[1].type = "testId"
    /\ attempts[2].type = "css"
    /\ attempts[3].type = "xpath"
    /\ actionResult[1].success

\* the first strategy that succeeds wins, and the act fails exactly when
\* every present strategy failed
FirstSuccessWins(present) ==
    /\ actionResult[1].success =>
          /\ attempts # <<>>
          /\ driver[1].strategy[attempts[Len(attempts)].type]
          /\ \A i \in 1..(Len(attempts) - 1) :
                 ~driver[1].strategy[attempts[i].type]
          /\ actionResult[1].selectorUsed =
                 << attempts[Len(attempts)].type,
                    attempts[Len(attempts)].value >>
    /\ ~actionResult[1].success <=>
          \A i \in 1..Len(present) : ~driver[1].strategy[present[i].type]

\* C6 as stated: for every click and every type, the outcome is a failure if
\* and only if every present strategy failed or the element has none.
C6_AsStated ==
    (pc = "actorDone" /\ IsClickOrType) =>
        FirstSuccessWins(IF ActorTarget = None THEN <<>>
                         ELSE PresentStrategies(ActorTarget[1]))

\* the strategy loop is reached: the target resolves and a type action
\* carries a value
LoopReached ==
    /\ ActorTarget # None
    /\ (action[1].type = "type" => action[1].value # Absent)

\* C6 amended: for a click, and for a type that carries a value, on an
\* element the Actor resolves, the first strategy that succeeds wins, no
\* strategy is attempted after it, selectorUsed names its type and value, and
\* the outcome is a failure if and only if every present strategy failed or
\* the element has none; a type without a value and an unresolved target
\* fail without any attempt.
C6_FirstSuccessWins ==
    (pc = "actorDone" /\ IsClickOrType) =>
        IF LoopReached
        THEN FirstSuccessWins(PresentStrategies(ActorTarget[1]))
        ELSE ~actionResult[1].success /\ attempts = <<>>

\* testId failed and css succeeded on an element that also has an xpath:
\* the xpath was not attempted
C6_Witness ==
    /\ pc = "actorDone"
    /\ action[1].type = "type"
    /\ LoopReached
    /\ Len(PresentStrategies(ActorTarget[1])) = 3
    /\ Len(attempts) = 2
    /\ actionResult[1].success
    /\ actionResult[1].selectorUsed = << "css", "c1" >>
    /\ driver[1].strategy["xpath"]

\* ------------------------------------------------------------------------
\* Properties of the persistent memory in the orchestrator
\* ------------------------------------------------------------------------

\* the element carries the selector of a stored record, under the record's
\* selector type
Carries(element, record) ==
    \/ record.selectorType = "css" /\ element.selectors.css = record.selector
    \/ record.selectorType = "xpath"
          /\ element.selectors.xpath = record.selector
    \/ record.selectorType = "testId"
          /\ element.selectors.testId = record.selector
    \/ record.selectorType = "aria"
          /\ element.selectors.ariaLabel = record.selector

\* the target the oracle decided on in this step
DecidedTarget == thinkingResult[1].nextAction[1].targetElementId

\* C7: memory reuse gating.  After the memory pre-check, a record with a
\* confidence of at most 0.85 (or no record) leaves the target as the oracle
\* decided it; a record with a confidence above 0.85 makes the target the
\* first element of the current snapshot that carries the stored selector
\* (and leaves it alone when no element carries it).
C7_MemoryReuseGating ==
    pc = "act" =>
        LET carriers == { i \in 1..Len(snapshot) :
                            knownSelector # None
                            /\ Carries(snapshot[i], knownSelector[1]) }
            high == knownSelector # None
                    /\ knownSelector[1].confidence.n * 100
                         > 85 * knownSelector[1].confidence.d
        IN  IF high /\ carriers # {}
            THEN /\ \E i \in carriers :
                        /\ \A j \in carriers : i <= j
                        /\ targetElement[1] = snapshot[i]
                 /\ action[1].targetElementId = targetElement[1].id
            ELSE /\ action[1].targetElementId = DecidedTarget
                 /\ targetElement[1].id = DecidedTarget

\* a record returned with confidence 0.90 moved the target from element-0 to
\* the element that carries the stored selector
C7_Witness ==
    /\ pc = "act"
    /\ knownSelector # None
    /\ knownSelector[1].confidence = Rat(90, 100)
    /\ DecidedTarget = "element-0"
    /\ action[1].targetElementId = "element-1"
    /\ Carries(targetElement[1], knownSelector[1])

\* C8: the persistent-memory lookup precedes every action attempt.  Every
\* call of the Actor in a step, the first act and the re-act, comes after a
\* findPersistentSelector call of that step keyed by the run's testSuiteId
\* and the action's description.
C8_LookupPrecedesAct ==
    \A i \in CallsOf("act") :
        \E j \in CallsOf("find") :
            /\ j < i
            /\ calls[j].scope = testSuiteId
            /\ calls[j].key = action[1].description

\* a step with a first act and a re-act, both after the lookup, for an
\* action whose description is not the first one of the store
C8_Witness ==
    /\ Cardinality(CallsOf("act")) = 2
    /\ CallsOf("find") = { 1 }
    /\ action[1].description = "Type email"

\* the ActionResult names the strategy <<type, selector>> as the one used
UsedStrategy(res, type, selector) == res.selectorUsed = << type, selector >>

\* C9 as stated: the golden record saved after an action that succeeded
\* without healing has the selector and selectorType of the strategy the
\* Actor used, the one the ActionResult reports in selectorUsed.
C9_GoldenIsSelectorUsed ==
    \A i \in CallsOf("save") :
        /\ calls[i].scope = testSuiteId
        /\ calls[i].key = action[1].description
        /\ UsedStrategy(actionResult[1], calls[i].selectorType,
                        calls[i].selector)

\* the update call of the current step that writes the healed selector
HealedWritten ==
    \E i \in CallsOf("update") :
        /\ calls[i].scope = testSuiteId
        /\ calls[i].key = action[1].description
        /\ calls[i].selector = healingResult[1].healedSelector

FirstCarrier(i) ==
    /\ knownSelector # None
    /\ knownSelector[1].confidence.n * 100
          > 85 * knownSelector[1].confidence.d
    /\ Carries(snapshot[i], knownSelector[1])
    /\ \A j \in 1..(i - 1) : ~Carries(snapshot[j], knownSelector[1])

\* C11: cross-run reuse.  When the store returns the record of
\* (testSuiteId, description) with a confidence above 0.85 and an element of
\* the current snapshot carries the stored selector, the first Actor call of
\* the step is made on that element, every selector it attempts is one of
\* that element, and no Healer call precedes it; when that act succeeds the
\* step goes to the golden save without a Healer call, and it completes with
\* a log entry whose healing.attempted is false and with the loop going on.
C11_CrossRunReuse ==
    [][ \A i \in 1..Len(snapshot) :
          /\ (pc = "act" /\ FirstCarrier(i)) =>
               /\ CallsOf("act") = {} /\ CallsOf("heal") = {}
               /\ calls' = Append(calls, calls'[Len(calls')])
               /\ calls'[Len(calls')].op = "act"
               /\ calls'[Len(calls')].target = snapshot[i].id
               /\ \A k \in 1..Len(attempts') :
                      snapshot[i].selectors[attempts'[k].type]
                          = attempts'[k].value
               /\ actionResult'[1].success =>
                      /\ pc' = "goldEmbed"
                      /\ healingAttempted' = FALSE
          /\ (pc \in {"goldEmbed", "goldSave"} /\ FirstCarrier(i)
                /\ pc' \notin {"goldEmbed", "goldSave"}) =>
               /\ pc' = "stable"
               /\ Len(logs') = Len(logs) + 1
               /\ logs'[Len(logs')].stepNumber = step
               /\ logs'[Len(logs')].action[1].targetElementId = snapshot[i].id
               /\ logs'[Len(logs')].result[1].success
               /\ logs'[Len(logs')].healing =
                      [ attempted |-> FALSE, successful |-> FALSE ]
               /\ \A k \in 1..Len(calls') : calls'[k].op # "heal"
               /\ successfulSteps' = successfulSteps + 1
               /\ healedSteps' = healedSteps
               /\ failedSteps' = failedSteps
      ]_vars

\* step 1 was healed and its selector stored; step 2, decided for element-1
\* under the same description, got that record back with confidence 0.90,
\* acted on element-0 that carries it, and completed without healing
C11_Witness ==
    /\ pc = "stable"
    /\ step = 2
    /\ Len(logs) = 2
    /\ logs[1].healing = [ attempted |-> TRUE, successful |-> TRUE ]
    /\ logs[1].action[1].description = action[1].description
    /\ knownSelector # None
    /\ knownSelector[1].selector = logs[1].selectorUsed
    /\ knownSelector[1].confidence = Rat(90, 100)
    /\ DecidedTarget = "element-1"
    /\ action[1].targetElementId = "element-0"
    /\ logs[2].healing.attempted = FALSE
    /\ logs[2].result[1].success

\* ------------------------------------------------------------------------
\* Properties of the Healer
\* ------------------------------------------------------------------------

\* the broken element healSelector was given
Broken == targetElement[1]

\* the result healSelector returned
Healed == healingResult[1]

\* the candidates the text scorer scores: same tag name, with a text
TextScored ==
    { i \in 1..Len(snapshot) :
        snapshot[i].tagName = Broken.tagName /\ snapshot[i].text # <<>> }

\* the candidates the structural scorer scores: same tag name
StructurallyScored ==
    { i \in 1..Len(snapshot) : snapshot[i].tagName = Broken.tagName }

\* a <= b for rationals
RatLE(a, b) == a.n * b.d <= b.n * a.d

\* C12: every HealingResult with method exact-match has healed = true and
\* the confidence 0.95, whatever the broken element and the candidates are;
\* its selector is the css selector of the first candidate with the broken
\* element's text and tag name.
C12_ExactMatchConfidence ==
    (pc = "healerDone" /\ Healed.method = "exact-match") =>
        /\ Healed.healed
        /\ Healed.confidence.n * 100 = 95 * Healed.confidence.d
        /\ \E i \in 1..Len(snapshot) :
               /\ snapshot[i].text = Broken.text
               /\ snapshot[i].tagName = Broken.tagName
               /\ Healed.healedSelector = snapshot[i].selectors.css
               /\ \A j \in 1..(i - 1) :
                      snapshot[j].text # Broken.text
                      \/ snapshot[j].tagName # Broken.tagName

\* an exact match on the second of two candidates, the first one having the
\* same text in upper case
C12_Witness ==
    /\ pc = "healerDone"
    /\ Healed.method = "exact-match"
    /\ Len(snapshot) = 2
    /\ snapshot[1].text = << "O", "K", "A", "Y" >>
    /\ Healed.healedSelector = snapshot[2].selectors.css

\* C13: a structural-similarity heal is returned only with a best structural
\* score strictly above 0.6, and reports that score.  A best candidate that
\* the scorer keeps (above 0.5) with a score of at most 0.6 is never
\* surfaced: the method is not structural-similarity, and when neither the
\* exact-text nor the similar-text tier matched the result is failed, with
\* healed = false and confidence 0.
C13_StructuralAboveThreshold ==
    pc = "healerDone" =>
        LET kept == findByStructuralSimilarity(Broken, snapshot)
        IN  /\ Healed.method = "structural-similarity" =>
                 /\ Healed.healed
                 /\ Healed.confidence.n * 10 > 6 * Healed.confidence.d
                 /\ \E i \in StructurallyScored :
                        StructuralScore(Broken, snapshot[i]) = Healed.confidence
                 /\ \A j \in StructurallyScored :
                        RatLE(StructuralScore(Broken, snapshot[j]),
                              Healed.confidence)
            /\ (kept # None /\ RatLE(kept[1].confidence, Rat(6, 10))) =>
                 /\ kept[1].confidence.n * 2 > kept[1].confidence.d
                 /\ Healed.method # "structural-similarity"
                 /\ (/\ findByExactText(Broken, snapshot) = None
                     /\ findBySimilarText(Broken, snapshot) = None) =>
                        /\ Healed.method = "failed"
                        /\ ~Healed.healed
                        /\ Healed.confidence.n = 0

\* the best structural candidate scores 4/7, strictly between 0.5 and 0.6,
\* and the result is failed
C13_Witness ==
    /\ pc = "healerDone"
    /\ Healed.method = "failed"
    /\ findByStructuralSimilarity(Broken, snapshot) # None
    /\ findByStructuralSimilarity(Broken, snapshot)[1].confidence = Rat(4, 7)

\* C14: a text-similarity heal is returned only when the best fuzzy text
\* score among the candidates with the broken element's tag name and a text
\* is strictly above 0.7; the confidence reported is that best score, the
\* maximum over all those candidates, and the selector is the css selector
\* of the first candidate that reaches it.
C14_TextSimilarityIsBest ==
    (pc = "healerDone" /\ Healed.method = "text-similarity") =>
        /\ Healed.healed
        /\ Healed.confidence.n * 10 > 7 * Healed.confidence.d
        /\ \A j \in TextScored :
               RatLE(calculateTextSimilarity(Broken.text, snapshot[j].text),
                     Healed.confidence)
        /\ \E i \in TextScored :
               /\ calculateTextSimilarity(Broken.text, snapshot[i].text)
                      = Healed.confidence
               /\ Healed.healedSelector = snapshot[i].selectors.css
               /\ \A j \in TextScored :
                      j < i => calculateTextSimilarity(Broken.text,
                                   snapshot[j].text) # Healed.confidence

\* two candidates above 0.7, the better one (1.0) after the weaker (0.75):
\* the heal reports the second
C14_Witness ==
    /\ pc = "healerDone"
    /\ Healed.method = "text-similarity"
    /\ Len(snapshot) = 2
    /\ calculateTextSimilarity(Broken.text, snapshot[1].text) = Rat(3, 4)
    /\ Healed.confidence = Rat(1, 1)
    /\ Healed.healedSelector = snapshot[2].selectors.css

\* ------------------------------------------------------------------------
\* Properties of calculateTextSimilarity
\* ------------------------------------------------------------------------

\* C15: calculateTextSimilarity is symmetric, for empty texts, texts with
\* white space at either end and texts in mixed case as well.
C15_SimilaritySymmetric ==
    pc = "similarityDone" =>
        LET swapped == calculateTextSimilarity(text2, text1)
        IN  similarity[1].n * swapped.d = swapped.n * similarity[1].d

\* two texts of different lengths, neither contained in the other once
\* normalised, one with white space at its end, the other in upper case
C15_Witness ==
    /\ pc = "similarityDone"
    /\ text1 = << "a", " " >>
    /\ text2 = << "B" >>
    /\ similarity[1] = Rat(1, 2)

\* C16: calculateTextSimilarity(a, a) is 1 for every text a, the empty text
\* and "Submit" included, and calculateTextSimilarity("", x) is 0 for every
\* text x that is not empty.
C16_SimilarityOfEqualAndEmpty ==
    pc = "similarityDone" =>
        /\ text1 = text2 =>
               similarity[1].n = similarity[1].d /\ similarity[1].d > 0
        /\ (text1 = <<>> /\ text2 # <<>>) => similarity[1].n = 0

\* "Submit" compared with itself
C16_Witness ==
    /\ pc = "similarityDone"
    /\ text1 = Submit
    /\ text2 = Submit
    /\ similarity[1] = Rat(1, 1)

\* a rational in [0, 1]
InUnitInterval(r) == r.d > 0 /\ 0 <= r.n /\ r.n <= r.d

\* C17: every value calculateTextSimilarity returns lies in [0, 1].
C17_SimilarityInUnitInterval ==
    pc = "similarityDone" => InUnitInterval(similarity[1])

\* the structural scores of the candidates and the confidence of every
\* HealingResult lie in [0, 1]
HealerConfidenceInUnitInterval ==
    pc = "healerDone" =>
        /\ InUnitInterval(Healed.confidence)
        /\ \A i \in 1..Len(snapshot) :
               InUnitInterval(StructuralScore(Broken, snapshot[i]))

\* ------------------------------------------------------------------------
\* Properties of the reasoning contract and of the failure paths
\* ------------------------------------------------------------------------

\* the response is not a decision of the documented form: it is not JSON,
\* or it is JSON without the structure of a decision
Malformed(rsp) == rsp.kind # "object" \/ rsp.present # DecisionFields

\* parsing the response fails: JSON.parse throws, or it yields null
Unparsable(rsp) == rsp.kind = "text" \/ rsp.kind = "null"

\* the decision is the safe one: nextAction = null, isGoalAchieved = false,
\* confidence = 0
IsSafeDecision(tr) ==
    /\ tr.nextAction = None
    /\ tr.isGoalAchieved = FALSE
    /\ tr.confidence = Rat(0, 1)
    /\ tr.undefined \cap { "nextAction", "isGoalAchieved", "confidence" } = {}

\* the step that is being taken ends the run as Stuck
EndsStuck ==
    /\ pc' = "done"
    /\ result'[1].success = FALSE
    /\ result'[1].error = Absent
    /\ result'[1].failedSteps = failedSteps + 1
    /\ failedSteps' = failedSteps + 1
    /\ logs' = Append(logs,
           StepLog(step, None, None, FALSE, FALSE,
                   "AI couldn't determine next action", Absent, Absent))

\* the step that is being taken ends the run in the catch block
EndsFatal == pc' = "done" /\ result'[1].error # Absent

\* C18: a malformed response never propagates a parse failure.  Every
\* response that is not a well-formed decision, be it no JSON at all or JSON
\* without the structure of a decision, parses to the safe decision
\* (nextAction = null, isGoalAchieved = false, confidence 0), and the run
\* ends in that step as Stuck, not in the catch block.
C18_MalformedIsStuck ==
    [][ (pc = "think" /\ response' # None /\ Malformed(response'[1])) =>
            /\ IsSafeDecision(thinkingResult'[1])
            /\ EndsStuck
      ]_vars

\* What parseAIResponse and the loop do with a malformed response.  A
\* response that is not JSON, or that is the JSON null, parses to the safe
\* decision and the run ends in that step as Stuck.  A JSON object without
\* the structure of a decision is not replaced by the safe decision: its
\* properties are copied, the missing ones as undefined, and the run ends as
\* Stuck exactly when it has neither a true goal flag nor an action.  In no
\* case does the step end in the catch block.
ParseFailureIsStuck ==
    [][ (pc = "think" /\ response' # None /\ Malformed(response'[1])) =>
            LET rsp == response'[1]
                tr == thinkingResult'[1]
            IN  /\ ~EndsFatal
                /\ Unparsable(rsp) => (IsSafeDecision(tr) /\ EndsStuck)
                /\ rsp.kind = "object" =>
                       /\ tr.undefined = DecisionFields \ rsp.present
                       /\ tr.nextAction = rsp.nextAction
                       /\ tr.isGoalAchieved = rsp.isGoalAchieved
                       /\ tr.confidence = rsp.confidence
                       /\ EndsStuck <=>
                              (~tr.isGoalAchieved /\ tr.nextAction = None)
      ]_vars

\* after one successful step the oracle answered with a text that is not
\* JSON: the run has ended as Stuck, without an error
ParseFailureReached ==
    /\ pc = "done"
    /\ response # None
    /\ response[1].kind = "text"
    /\ thinkingResult = Some(SafeDefault)
    /\ step = 2
    /\ result[1].success = FALSE
    /\ result[1].error = Absent
    /\ result[1].successfulSteps = 1
    /\ result[1].failedSteps = 1

\* C19: when the oracle returns no action and does not signal the goal, the
\* run ends in that step as Stuck: failedSteps grows by exactly one and the
\* other counters stay, a log entry with action = null and result = null is
\* appended, no Actor, Healer or persistent-memory call is made in the step
\* and the store is not written, and the result has success = false and no
\* error.
C19_StuckOnNoAction ==
    [][ (/\ pc = "think"
         /\ thinkingResult' # None
         /\ thinkingResult'[1].nextAction = None
         /\ ~thinkingResult'[1].isGoalAchieved) =>
            /\ EndsStuck
            /\ successfulSteps' = successfulSteps
            /\ healedSteps' = healedSteps
            /\ totalSteps' = step
            /\ Len(logs') = Len(logs) + 1
            /\ logs'[Len(logs')].action = None
            /\ logs'[Len(logs')].result = None
            /\ calls' = <<>>
            /\ store' = store
            /\ result'[1].totalSteps = step
            /\ result'[1].logs = logs'
      ]_vars

\* after one successful step a well-formed decision without an action and
\* without the goal flag ended the run
C19_Witness ==
    /\ pc = "done"
    /\ response # None
    /\ response[1].kind = "object"
    /\ response[1].present = DecisionFields
    /\ thinkingResult[1].nextAction = None
    /\ ~thinkingResult[1].isGoalAchieved
    /\ step = 2
    /\ calls = <<>>
    /\ Len(logs) = 2
    /\ logs[2].action = None
    /\ result[1].success = FALSE
    /\ result[1].successfulSteps = 1
    /\ result[1].failedSteps = 1

\* C20: a driver failure while the Actor executes an action is never fatal
\* to the run.  act and the re-act return an ActionResult; a failed one
\* carries the error message; after a failed first act the run has not
\* returned, the counters are untouched and the step is in the heal path
\* with healingAttempted set; neither the act nor the re-act of a step ends
\* the run in the catch block.
C20_DriverFailureNotFatal ==
    [][ /\ pc = "act" =>
              /\ actionResult' # None
              /\ result' = None
              /\ actionResult'[1].success => pc' = "goldEmbed"
              /\ ~actionResult'[1].success =>
                     /\ actionResult'[1].error # Absent
                     /\ pc' = "heal"
                     /\ healingAttempted'
                     /\ UNCHANGED << counters, logs >>
        /\ pc = "react" =>
              /\ actionResult' # None
              /\ ~actionResult'[1].success => actionResult'[1].error # Absent
              /\ ~EndsFatal
      ]_vars

\* the driver rejected both selectors of the target: the act has returned a
\* failure and the step is in the heal path
C20_Witness ==
    /\ pc = "heal"
    /\ Len(attempts) = 2
    /\ actionResult # None
    /\ ~actionResult[1].success
    /\ actionResult[1].error
           = "Failed to click element with any selector strategy"
    /\ healingAttempted
    /\ result = None

\* ------------------------------------------------------------------------
\* Properties of the Healer's tiers
\* ------------------------------------------------------------------------

\* the candidates with the broken element's text and tag name
SameTextAndTag ==
    { i \in 1..Len(snapshot) :
        snapshot[i].text = Broken.text /\ snapshot[i].tagName = Broken.tagName }

\* the candidates whose text is similar to the broken element's above 0.7
FuzzyAbove ==
    { i \in TextScored :
        RatGT(calculateTextSimilarity(Broken.text, snapshot[i].text),
              Rat(7, 10)) }

\* the candidates whose structural score is above 0.6
StructuralAbove ==
    { i \in StructurallyScored :
        RatGT(StructuralScore(Broken, snapshot[i]), Rat(6, 10)) }

\* C27 as stated: the tiers are evaluated in the order exact text, fuzzy
\* text, structure, and the first acceptable match wins.  If any candidate
\* has the text and the tag name of the broken element the result is
\* exact-match; a text-similarity result is returned only when no candidate
\* has them; a structural-similarity result only when no candidate has them
\* and no candidate is similar in text above 0.7.
C27_AsStated ==
    pc = "healerDone" =>
        /\ SameTextAndTag # {} => Healed.method = "exact-match"
        /\ Healed.method = "text-similarity" => SameTextAndTag = {}
        /\ Healed.method = "structural-similarity" =>
               SameTextAndTag = {} /\ FuzzyAbove = {}

\* C27 amended: the same, for a broken element that has a text.  The first
\* tier that matches decides the result: exact-match exactly when a
\* candidate has the text and the tag name of the broken element, whatever
\* the structural scores are; text-similarity exactly when there is none
\* but a candidate similar in text above 0.7; structural-similarity exactly
\* when there is neither but a candidate with a structural score above 0.6.
\* A broken element without a text skips both text tiers, candidates
\* without a text and with its tag name notwithstanding, and is healed by
\* structure or not at all.
C27_TierOrder ==
    pc = "healerDone" =>
        LET exact == Broken.text # <<>> /\ SameTextAndTag # {}
            fuzzy == Broken.text # <<>> /\ FuzzyAbove # {}
        IN  /\ Healed.method = "exact-match" <=> exact
            /\ Healed.method = "text-similarity" <=> (~exact /\ fuzzy)
            /\ Healed.method = "structural-similarity" <=>
                   (~exact /\ ~fuzzy /\ StructuralAbove # {})
            /\ Broken.text = <<>> =>
                   Healed.method \in { "structural-similarity", "failed" }

\* the second candidate has the broken element's text and a structural
\* score of 3/5, the first one has no text and the higher structural score
\* 4/5: the result is the exact match on the second
C27_Witness ==
    /\ pc = "healerDone"
    /\ Healed.method = "exact-match"
    /\ Len(snapshot) = 2
    /\ snapshot[1].text = <<>>
    /\ StructuralScore(Broken, snapshot[1]) = Rat(4, 5)
    /\ StructuralScore(Broken, snapshot[2]) = Rat(3, 5)
    /\ Healed.healedSelector = snapshot[2].selectors.css

\* C28: when no tier has an acceptable match (no candidate with the text
\* and tag name of a broken element that has a text, none similar in text
\* above 0.7, none with a structural score above 0.6), healSelector returns
\* healed = false, method = failed, confidence = 0 and no healedSelector;
\* and for every result, healed = false exactly when method = failed
\* exactly when confidence = 0.
C28_FailedResult ==
    pc = "healerDone" =>
        /\ (/\ (Broken.text = <<>> \/ SameTextAndTag = {})
            /\ (Broken.text = <<>> \/ FuzzyAbove = {})
            /\ StructuralAbove = {}) =>
               /\ Healed.healed = FALSE
               /\ Healed.method = "failed"
               /\ Healed.confidence.n = 0
               /\ Healed.healedSelector = Absent
        /\ Healed.healed = FALSE <=> Healed.method = "failed"
        /\ Healed.method = "failed" <=> Healed.confidence.n = 0
        /\ Healed.method \in { "exact-match", "text-similarity",
                                "structural-similarity", "failed" }

\* two candidates with the broken element's tag name, one of them with a
\* text that is similar to the broken element's by 0.5, neither acceptable
\* to any tier
C28_Witness ==
    /\ pc = "healerDone"
    /\ Len(snapshot) = 2
    /\ Cardinality(StructurallyScored) = 2
    /\ \E i \in TextScored :
           calculateTextSimilarity(Broken.text, snapshot[i].text) = Rat(2, 4)
    /\ Healed.healed = FALSE
    /\ Healed.method = "failed"
    /\ Healed.confidence = Rat(0, 1)
    /\ Healed.healedSelector = Absent

\* ------------------------------------------------------------------------
\* calculateTextSimilarity against the reference score
\* ------------------------------------------------------------------------

\* The reference score of two texts a and b, on the lower-cased, trimmed
\* texts: 1 when they are equal, shorter/longer when one is a substring of
\* the other, and 1 - levenshtein/max(len) otherwise.
ReferenceSimilarity(a, b) ==
    LET na == trim(toLowerCase(a))
        nb == trim(toLowerCase(b))
        longer == IF Len(na) > Len(nb) THEN Len(na) ELSE Len(nb)
        shorter == IF Len(na) > Len(nb) THEN Len(nb) ELSE Len(na)
    IN  IF na = nb THEN Rat(1, 1)
        ELSE IF includes(na, nb) \/ includes(nb, na)
        THEN Rat(shorter, longer)
        ELSE Rat(longer - levenshteinDistance(na, nb), longer)

\* the same rational number
RatEQ(a, b) == a.n * b.d = b.n * a.d

\* C29: for all texts a and b, calculateTextSimilarity(a, b) is the
\* reference score of a and b.
C29_SimilarityIsReference ==
    pc = "similarityDone" =>
        RatEQ(similarity[1], ReferenceSimilarity(text1, text2))

\* the text is its own trimmed form and keeps its length in lower case
IsNormalLength(t) == trim(t) = t /\ Len(toLowerCase(t)) = Len(t)

\* What the code does: it takes the lengths of the texts as they are given
\* and compares the lower-cased, trimmed texts.  It agrees with the
\* reference score for the texts that have no white space at their ends
\* and keep their length in lower case.
SimilarityIsReferenceOnNormalLength ==
    (pc = "similarityDone" /\ IsNormalLength(text1) /\ IsNormalLength(text2))
        => RatEQ(similarity[1], ReferenceSimilarity(text1, text2))

\* "a " and "Ba": the reference score is 1/2, the function returns 1
SimilarityOfUntrimmed ==
    /\ pc = "similarityDone"
    /\ text1 = << "a", " " >>
    /\ text2 = << "B", "a" >>
    /\ ReferenceSimilarity(text1, text2) = Rat(1, 2)
    /\ similarity[1] = Rat(2, 2)

\* ------------------------------------------------------------------------
\* The structural score against the ratio of matching to applicable
\* discriminators
\* ------------------------------------------------------------------------

\* The discriminators of a target and a candidate: the classes apply when
\* both elements have classes, and count for the target's classes that the
\* candidate shares out of the target's classes; type, name and placeholder
\* apply to every pair, and each counts for one when the two values are the
\* same.  The score is what matches over what applies.
ReferenceStructuralScore(target, candidate) ==
    LET ta == target.attributes
        ca == candidate.attributes
        both == ta.class # <<>> /\ ca.class # <<>>
        matching ==   (IF both THEN CommonClasses(ta.class, ca.class) ELSE 0)
                    + (IF ta.type = ca.type THEN 1 ELSE 0)
                    + (IF ta.name = ca.name THEN 1 ELSE 0)
                    + (IF ta.placeholder = ca.placeholder THEN 1 ELSE 0)
        applicable == (IF both THEN Len(ta.class) ELSE 0) + 3
    IN  Rat(matching, applicable)

\* the candidate the structural scorer keeps is one with the highest score
KeepsHighestScore ==
    LET kept == findByStructuralSimilarity(Broken, snapshot)
    IN  IF kept = None
        THEN \A j \in StructurallyScored :
                 RatLE(StructuralScore(Broken, snapshot[j]), Rat(1, 2))
        ELSE /\ \E i \in StructurallyScored :
                    /\ kept[1].element = snapshot[i]
                    /\ kept[1].confidence = StructuralScore(Broken, snapshot[i])
             /\ \A j \in StructurallyScored :
                    RatLE(StructuralScore(Broken, snapshot[j]),
                          kept[1].confidence)

\* C30: for every candidate with the target's tag name the structural
\* score is the number of matching discriminators over the number of
\* applicable ones, so that a discriminator that applies and does not match
\* lowers the score; and the candidate kept is one with the highest score.
C30_StructuralScoreIsRatio ==
    pc = "healerDone" =>
        /\ \A i \in StructurallyScored :
               RatEQ(StructuralScore(Broken, snapshot[i]),
                     ReferenceStructuralScore(Broken, snapshot[i]))
        /\ KeepsHighestScore

\* What the code does: type, name and placeholder are added to the
\* denominator only when they match, so a value that differs leaves the
\* score as it is.  The score is the reference score when type, name and
\* placeholder all match, it is never below the reference score, and a
\* candidate that differs from the target in its name alone, the classes
\* not applying, has the score 1.  The candidate kept is one with the
\* highest score.
MismatchLeavesScore ==
    pc = "healerDone" =>
        /\ \A i \in StructurallyScored :
               LET ta == Broken.attributes
                   ca == snapshot[i].attributes
                   score == StructuralScore(Broken, snapshot[i])
               IN  /\ RatLE(ReferenceStructuralScore(Broken, snapshot[i]),
                            score)
                   /\ (ta.type = ca.type /\ ta.name = ca.name
                          /\ ta.placeholder = ca.placeholder) =>
                          RatEQ(score,
                                ReferenceStructuralScore(Broken, snapshot[i]))
                   /\ (ta.class = <<>> /\ ta.name # ca.name
                          /\ ta.type = ca.type) =>
                          score = Rat(2, 2)
        /\ KeepsHighestScore

\* the only candidate has another name than the broken element, which has
\* no classes: its score is 1 instead of 2/3, and the heal is accepted
MismatchHealed ==
    /\ pc = "healerDone"
    /\ Len(snapshot) = 1
    /\ Broken.attributes.class = <<>>
    /\ snapshot[1].tagName = Broken.tagName
    /\ snapshot[1].attributes.name # Broken.attributes.name
    /\ ReferenceStructuralScore(Broken, snapshot[1]) = Rat(2, 3)
    /\ Healed.method = "structural-similarity"
    /\ Healed.confidence = Rat(2, 2)

\* ------------------------------------------------------------------------
\* Properties of the loop's budget, its log and its counters
\* ------------------------------------------------------------------------

\* C21: a failure to capture the screenshot during snapshot capture is not
\* fatal.  When page.screenshot fails, captureSnapshot still returns the
\* snapshot of the page, and the run goes on to think in that step instead
\* of returning.
C21_ScreenshotFailureNotFatal ==
    [][ (pc = "observe" /\ screenshot' = Some(ScreenshotFailed)) =>
            /\ pc' = "think"
            /\ snapshot' \in Pages
            /\ result' = None
      ]_vars

\* What the code does instead: the screenshot's exception ends the run in
\* the catch block, with success = false, the exception's message, the
\* counters of the steps before and no log entry for the step.
ScreenshotFailureIsFatal ==
    [][ (pc = "observe" /\ screenshot' = Some(ScreenshotFailed)) =>
            /\ pc' = "done"
            /\ result' = Some(AgentResult(FALSE, ScreenshotFailed, step,
                               successfulSteps, failedSteps, healedSteps, logs))
            /\ Len(logs) = step - 1
      ]_vars

\* the screenshot failed in step 2 and the run has returned
ScreenshotFailureReached ==
    /\ pc = "done"
    /\ screenshot = Some(ScreenshotFailed)
    /\ step = 2
    /\ result[1].error = ScreenshotFailed
    /\ result[1].successfulSteps = 1

\* totalSteps is within the budget of maxSteps iterations
TotalStepsWithinBudget ==
    /\ 0 <= totalSteps
    /\ maxSteps > 0 => totalSteps <= maxSteps
    /\ maxSteps <= 0 =>
           /\ totalSteps = 0
           /\ logs = <<>>
           /\ pc \in { "start", "done" }
    /\ Len(logs) <= totalSteps
    /\ pc = "done" =>
           /\ result # None
           /\ result[1].totalSteps = totalSteps
           /\ Len(result[1].logs) <= result[1].totalSteps

AppendOnly ==
    \/ logs' = logs
    \/ /\ Len(logs') = Len(logs) + 1
       /\ SubSeq(logs', 1, Len(logs)) = logs

\* C24: exactly one StepLog is appended per loop iteration and the log is
\* append-only.  Every result the run returns, the one of the catch block
\* included, has as many log entries as totalSteps says iterations were
\* started, entry i carries the step number i (logs[i].stepNumber = i+1
\* with indices from 0), and no step changes or removes an entry.
C24_OneLogPerIteration ==
    [][ /\ AppendOnly
        /\ pc' = "done" =>
               /\ Len(result'[1].logs) = result'[1].totalSteps
               /\ \A i \in 1..Len(result'[1].logs) :
                      result'[1].logs[i].stepNumber = i
      ]_vars

\* What the code does.  The log is append-only and entry i carries the step
\* number i; an iteration that runs to its end or to a break appends exactly
\* one entry, so a result without an error has totalSteps entries; an
\* iteration that an exception ends appends none, so the result of the
\* catch block has totalSteps - 1 entries when the exception came inside the
\* loop (and none, with totalSteps = 0, when it came before the loop).
OneLogPerFinishedIteration ==
    [][ /\ AppendOnly
        /\ \A i \in 1..Len(logs') : logs'[i].stepNumber = i
        /\ pc' \notin { "start", "stable", "done" } => Len(logs') = step' - 1
        /\ pc' = "stable" => Len(logs') = step'
        /\ pc' = "done" =>
               /\ result'[1].logs = logs'
               /\ result'[1].error = Absent =>
                      Len(result'[1].logs) = result'[1].totalSteps
               /\ result'[1].error # Absent =>
                      IF step' = 0
                      THEN result'[1].totalSteps = 0 /\ logs' = <<>>
                      ELSE Len(result'[1].logs) = result'[1].totalSteps - 1
      ]_vars

\* the oracle threw in step 2: the result counts two steps and has one
\* log entry
FatalStepWithoutLog ==
    /\ pc = "done"
    /\ result[1].error = "oracle failed"
    /\ result[1].totalSteps = 2
    /\ Len(result[1].logs) = 1

\* C25: when the target of the decided action is the id of no element of
\* the current snapshot (a wait, navigate or verify action without a target
\* included), the run ends in that step: failedSteps grows by exactly one
\* and the other counters stay, a log entry with the action and result =
\* null is appended, neither the Actor nor the Healer nor the persistent
\* store is called and the store is not written, and the result has
\* success = false and no error.
C25_TargetNotFoundEndsRun ==
    [][ (/\ pc = "think"
         /\ thinkingResult' # None
         /\ ~thinkingResult'[1].isGoalAchieved
         /\ thinkingResult'[1].nextAction # None
         /\ \A i \in 1..Len(snapshot) :
                snapshot[i].id # thinkingResult'[1].nextAction[1].targetElementId)
        =>
            /\ pc' = "done"
            /\ result'[1].success = FALSE
            /\ result'[1].error = Absent
            /\ result'[1].totalSteps = step
            /\ result'[1].failedSteps = failedSteps + 1
            /\ result'[1].logs = logs'
            /\ failedSteps' = failedSteps + 1
            /\ successfulSteps' = successfulSteps
            /\ healedSteps' = healedSteps
            /\ Len(logs') = Len(logs) + 1
            /\ SubSeq(logs', 1, Len(logs)) = logs
            /\ logs'[Len(logs')].stepNumber = step
            /\ logs'[Len(logs')].action = thinkingResult'[1].nextAction
            /\ logs'[Len(logs')].result = None
            /\ logs'[Len(logs')].healing =
                   [ attempted |-> FALSE, successful |-> FALSE ]
            /\ calls' = <<>>
            /\ store' = store
      ]_vars

\* after one successful step the oracle decided a wait, which has no
\* target: the run has ended without a call
C25_Witness ==
    /\ pc = "done"
    /\ step = 2
    /\ action # None
    /\ action[1].type = "wait"
    /\ action[1].targetElementId = Absent
    /\ calls = <<>>
    /\ Len(logs) = 2
    /\ logs[2].action = action
    /\ logs[2].result = None
    /\ result[1].success = FALSE
    /\ result[1].error = Absent
    /\ result[1].successfulSteps = 1
    /\ result[1].failedSteps = 1

\* the log entries of healed steps, and of successful steps
HealedEntries(lg) == { i \in 1..Len(lg) : lg[i].healing.successful }

SuccessfulEntries(lg) ==
    { i \in 1..Len(lg) : lg[i].result # None /\ lg[i].result[1].success }

HealedCountedBeforePersisting ==
    pc = "done" =>
        /\ result[1].successfulSteps =
               Cardinality(SuccessfulEntries(result[1].logs))
        /\ HealedEntries(result[1].logs) \subseteq
               SuccessfulEntries(result[1].logs)
        /\ IF result[1].error # Absent /\ healingSuccessful
           THEN result[1].healedSteps =
                    Cardinality(HealedEntries(result[1].logs)) + 1
           ELSE /\ result[1].healedSteps =
                       Cardinality(HealedEntries(result[1].logs))
                /\ result[1].healedSteps <= result[1].successfulSteps

\* step 1: the act failed, the healer matched, the re-act succeeded, and
\* the store threw on the update of the healed selector
HealedButNotSuccessful ==
    /\ pc = "done"
    /\ result[1].error = "store update failed"
    /\ result[1].totalSteps = 1
    /\ result[1].healedSteps = 1
    /\ result[1].successfulSteps = 0
    /\ result[1].logs = <<>>

\* ------------------------------------------------------------------------
\* Two runs with different test suites
\* ------------------------------------------------------------------------

\* the records of the store that belong to this run's test suite
OwnRecords(st) ==
    [ k \in StoreKeys |-> IF k[1] = testSuiteId THEN st[k] ELSE None ]

\* the step is a write of the concurrent run, not a step of this run
OtherRunStep == pc' = pc /\ store' # store

\* C22: runs with different test suites do not interfere through the
\* persistent store.  Every read and write this run issues is keyed by its
\* own testSuiteId; a write of the other run changes no record of this
\* run's suite and nothing else of this run, and a step of this run changes
\* no record of another suite; the record the memory pre-check gets, and
\* with it the target the step acts on, is determined by the records of
\* this run's own suite, whatever the other run has written meanwhile.
C22_ScopesDoNotInterfere ==
    [][ /\ \A i \in 1..Len(calls') :
               calls'[i].op \in { "find", "save", "update" } =>
                   calls'[i].scope = testSuiteId
        /\ OtherRunStep =>
               /\ OwnRecords(store') = OwnRecords(store)
               /\ UNCHANGED << pc, step, counters, isGoalAchieved, logs,
                               locals, result >>
        /\ ~OtherRunStep =>
               \A k \in StoreKeys :
                   k[1] # testSuiteId => store'[k] = store[k]
        /\ (pc = "lookup" /\ pc' = "act") =>
               /\ knownSelector' \in
                      findPersistentSelector(OwnRecords(store), testSuiteId,
                                             action[1].description)
               /\ store[<< testSuiteId, action[1].description >>] = None =>
                      /\ knownSelector' = None
                      /\ action' = action
                      /\ targetElement' = targetElement
      ]_vars

\* while this run was under way the other run stored the selector of
\* element-0 under the description of this run's action; this run, whose
\* own suite has no record for it, got nothing from the pre-check and acts
\* on element-1 as decided
C22_Witness ==
    /\ pc = "act"
    /\ action[1].description = "Type email"
    /\ store[<< "suite-2", "Type email" >>] = Some(StoredSelector("c0", "css"))
    /\ store[<< "suite-1", "Type email" >>] = None
    /\ knownSelector = None
    /\ action[1].targetElementId = "element-1"
    /\ targetElement[1].id = "element-1"

\* ------------------------------------------------------------------------
\* Properties of the Actor: unresolved targets and select
\* ------------------------------------------------------------------------

\* no element the Actor is given has the id the action names
Unresolved ==
    \A i \in 1..Len(snapshot) : snapshot[i].id # action[1].targetElementId

\* C31: when no element the Actor is given has the id of the action's
\* target, click, type and select fail with the element-not-found error,
\* whatever the action's value is and whatever the driver would do: no
\* selector strategy is attempted, no driver call is made, and act returns
\* after that one failure.
C31_UnresolvedTargetFails ==
    (/\ pc = "actorDone"
     /\ action[1].type \in { "click", "type", "select" }
     /\ Unresolved) =>
        /\ actionResult[1].success = FALSE
        /\ actionResult[1].error = "Element not found"
        /\ actionResult[1].selectorUsed = <<>>
        /\ attempts = <<>>

\* a select with a value on an element that is not in the list, with a
\* driver that would have accepted every call
C31_Witness ==
    /\ pc = "actorDone"
    /\ action[1].type = "select"
    /\ action[1].value = "v"
    /\ action[1].targetElementId = "element-7"
    /\ Unresolved
    /\ driver[1].other
    /\ \A t \in StrategyTypes : driver[1].strategy[t]
    /\ actionResult[1].error = "Element not found"
    /\ attempts = <<>>

CountersWithin(b) ==
    /\ successfulSteps + failedSteps <= totalSteps
    /\ totalSteps <= b
    /\ failedSteps <= 1
    /\ Len(logs) <= totalSteps
    /\ pc = "done" =>
           /\ result[1].successfulSteps + result[1].failedSteps
                  <= result[1].totalSteps
           /\ result[1].totalSteps <= b
           /\ result[1].failedSteps <= 1
           /\ Len(result[1].logs) <= result[1].totalSteps

\* a step that increments failedSteps increments it by one and ends the
\* run: no further step is started
FailureEndsRun ==
    failedSteps' # failedSteps =>
        /\ failedSteps' = failedSteps + 1
        /\ pc' = "done"

\* C33 as stated: in every reachable state and in every result,
\* successfulSteps + failedSteps <= totalSteps <= maxSteps, failedSteps <= 1
\* and logs.length <= totalSteps, and after a step that increments
\* failedSteps no further step is started.
C33_AsStated ==
    [][ CountersWithin(maxSteps)' /\ FailureEndsRun ]_vars

\* C33 amended: the same with totalSteps <= max(maxSteps, 0).  A run with
\* a negative maxSteps starts no iteration and has totalSteps = 0, which is
\* above its maxSteps.
C33_CounterInvariant ==
    [][ CountersWithin(IF maxSteps > 0 THEN maxSteps ELSE 0)'
        /\ FailureEndsRun ]_vars

\* the second of two steps failed after a successful first one: the run
\* is over with one successful and one failed step
C33_Witness ==
    /\ pc = "done"
    /\ maxSteps = 2
    /\ totalSteps = 2
    /\ successfulSteps = 1
    /\ failedSteps = 1
    /\ Len(logs) = 2
    /\ result[1].failedSteps = 1
    /\ result[1].successfulSteps = 1

\* the decision of the last step that was executed signals the goal
GoalSignalled == thinkingResult # None /\ thinkingResult[1].isGoalAchieved

\* C34: the result has success = true exactly when the oracle signalled
\* isGoalAchieved = true in the last step that was executed; and whenever
\* success is true, failedSteps is 0, there is no error, and successfulSteps
\* is totalSteps - 1.  The goal is only ever signalled in the state the run
\* returns in.
C34_SuccessIffGoal ==
    /\ GoalSignalled => pc = "done"
    /\ pc = "done" =>
           /\ result[1].success <=> GoalSignalled
           /\ result[1].success =>
                  /\ result[1].failedSteps = 0
                  /\ result[1].error = Absent
                  /\ result[1].successfulSteps = result[1].totalSteps - 1
                  /\ result[1].totalSteps = step

\* the goal was signalled in step 2 after a healed first step
C34_Witness ==
    /\ pc = "done"
    /\ GoalSignalled
    /\ result[1].success
    /\ result[1].totalSteps = 2
    /\ result[1].successfulSteps = 1
    /\ result[1].healedSteps = 1
    /\ result[1].failedSteps = 0

\* the run has returned without an error, the oracle has not signalled the
\* goal and no step has failed: every step that was started has succeeded
AllStepsSucceeded ==
    /\ pc = "done"
    /\ result[1].error = Absent
    /\ ~GoalSignalled
    /\ result[1].failedSteps = 0

\* the result of a run that used up a budget of b steps
Exhausted(b) ==
    /\ step = b + 1
    /\ result[1].success = FALSE
    /\ result[1].totalSteps = b
    /\ result[1].successfulSteps = b
    /\ Len(result[1].logs) = b
    /\ \A i \in 1..b : result[1].logs[i].result[1].success

\* C35 as stated: when the oracle never signals the goal and every action
\* succeeds, directly or after healing, the loop ends after exactly
\* maxSteps steps and the run returns success = false with totalSteps =
\* successfulSteps = maxSteps, failedSteps = 0 and no error.
C35_AsStated == AllStepsSucceeded => Exhausted(maxSteps)

\* C35 amended: the same for maxSteps >= 0; with a negative maxSteps the
\* loop ends after no step and totalSteps = successfulSteps = 0.
C35_BudgetExhaustion ==
    AllStepsSucceeded => Exhausted(IF maxSteps > 0 THEN maxSteps ELSE 0)

\* a run with maxSteps = 2: the first step succeeded after healing, the
\* second directly, and the budget is used up
C35_Witness ==
    /\ AllStepsSucceeded
    /\ maxSteps = 2
    /\ result[1].totalSteps = 2
    /\ result[1].successfulSteps = 2
    /\ result[1].healedSteps = 1
    /\ logs[1].healing.successful
    /\ ~logs[2].healing.attempted

\* the broken element is one of the elements of the snapshot the Healer is
\* given
BrokenInSnapshot ==
    \E i \in 1..Len(snapshot) : snapshot[i] = targetElement[1]

\* the elements of the snapshot with the broken element's text and tag name
SameAsBroken ==
    { i \in 1..Len(snapshot) :
        /\ snapshot[i].text = targetElement[1].text
        /\ snapshot[i].tagName = targetElement[1].tagName }

\* C36: the orchestrator always gives healSelector the snapshot the broken
\* element came from; whenever the broken element is in the list and has a
\* non-empty text, healSelector returns healed = true with method
\* exact-match and the css selector of the first element of the list with
\* that text and tag name, which may be the broken element itself.
C36_SelfMatch ==
    healingResult # None =>
        /\ BrokenInSnapshot
        /\ targetElement[1].text # <<>> =>
               /\ healingResult[1].healed
               /\ healingResult[1].method = "exact-match"
               /\ healingResult[1].healedSelector =
                      FirstOf(snapshot, SameAsBroken)[1].selectors.css

\* the second button was broken and healed to the first one, which has the
\* same text; and the first button was broken and healed to itself
C36_Witness ==
    /\ healingResult # None
    /\ targetElement[1].id = "element-0"
    /\ targetElement[1].text # <<>>
    /\ healingResult[1].method = "exact-match"
    /\ healingResult[1].healedSelector = targetElement[1].selectors.css

\* the healed selector is the first match and not the broken element
C36_WitnessOther ==
    /\ healingResult # None
    /\ targetElement[1].id = "element-1"
    /\ healingResult[1].method = "exact-match"
    /\ healingResult[1].healedSelector = "c0"

\* the attributes among type, name and placeholder that neither the target
\* nor the candidate of the scorer has
AbsentOnBoth ==
    { a \in { "type", "name", "placeholder" } :
        /\ targetElement[1].attributes[a] = Undefined
        /\ snapshot[1].attributes[a] = Undefined }

\* the target of the scorer has no class attribute
TargetWithoutClass == targetElement[1].attributes.class = <<>>

\* C37: an attribute that neither the target nor the candidate has counts as
\* a match: for a target without a class attribute, a same-tag candidate
\* that lacks an attribute the target lacks too scores exactly 1.0, two
\* elements that both lack type, name and placeholder in particular; and
\* every same-tag candidate of such a target scores either 0 or 1.0.
C37_AbsentOnBothMatches ==
    (pc = "scorerDone" /\ similarity # None /\ TargetWithoutClass) =>
        /\ AbsentOnBoth # {} => RatEQ(similarity[1], Rat(1, 1))
        /\ \/ RatEQ(similarity[1], Rat(0, 1))
           \/ RatEQ(similarity[1], Rat(1, 1))

\* two buttons without class, type, name and placeholder have been scored
\* 1.0
C37_Witness ==
    /\ pc = "scorerDone"
    /\ similarity # None
    /\ TargetWithoutClass
    /\ snapshot[1].attributes.class = <<>>
    /\ AbsentOnBoth = { "type", "name", "placeholder" }
    /\ RatEQ(similarity[1], Rat(1, 1))

\* a candidate that shares no attribute with a target without class has
\* been scored 0
C37_WitnessZero ==
    /\ pc = "scorerDone"
    /\ similarity # None
    /\ TargetWithoutClass
    /\ RatEQ(similarity[1], Rat(0, 1))

\* a target without class whose only agreement with the candidate is an
\* attribute that both lack has been scored 1.0
C37_WitnessOnlyAbsent ==
    /\ pc = "scorerDone"
    /\ similarity # None
    /\ TargetWithoutClass
    /\ AbsentOnBoth = { "type" }
    /\ targetElement[1].attributes.name # snapshot[1].attributes.name
    /\ targetElement[1].attributes.placeholder
           # snapshot[1].attributes.placeholder
    /\ RatEQ(similarity[1], Rat(1, 1))

\* the action of a log entry succeeded; an entry without a result has none
EntrySucceeded(e) == e.result # None /\ e.result[1].success

\* the flags of every log entry agree with each other and with its result
LogFlagsConsistent ==
    \A i \in 1..Len(logs) :
        LET e == logs[i]
        IN  /\ e.healing.successful => e.healing.attempted
            /\ e.healing.successful => EntrySucceeded(e)
            /\ e.selectorUsed # Absent <=> EntrySucceeded(e)
            /\ e.selectorType # Absent <=> EntrySucceeded(e)

\* healingAttempted is set by the first act of a step, exactly when that act
\* failed, is false again when the next step begins, and an entry that says
\* healing was attempted is appended in a step in which it is set
AttemptedAfterFailedAct ==
    /\ (pc = "act" /\ pc' # "act") =>
           (healingAttempted' <=> ~actionResult'[1].success)
    /\ (~healingAttempted /\ healingAttempted') => pc = "act"
    /\ step' # step => ~healingAttempted'
    /\ Len(logs') > Len(logs) =>
           /\ step' = step
           /\ logs'[Len(logs')].healing.attempted => healingAttempted

\* C38: in every StepLog healing.successful implies healing.attempted,
\* healing.attempted implies that the first act of that step failed,
\* healing.successful implies result.success, and selectorUsed and
\* selectorType are present exactly when result.success is true.
C38_HealingFlags == []LogFlagsConsistent /\ [][AttemptedAfterFailedAct]_vars

\* a first step that succeeded after healing and a second one whose healing
\* was attempted and did not succeed
C38_Witness ==
    /\ Len(logs) = 2
    /\ logs[1].healing.attempted /\ logs[1].healing.successful
    /\ EntrySucceeded(logs[1])
    /\ logs[1].selectorUsed # Absent /\ logs[1].selectorType # Absent
    /\ logs[2].healing.attempted /\ ~logs[2].healing.successful
    /\ logs[2].result # None /\ ~logs[2].result[1].success
    /\ logs[2].selectorUsed = Absent /\ logs[2].selectorType = Absent

\* the step in which generateElementEmbedding or saveGoldenState throws after
\* a directly successful action
GoldenStateFailure ==
    \/ pc = "goldEmbed" /\ pc' \notin { "goldEmbed", "goldSave" }
    \/ pc = "goldSave" /\ pc' # "goldSave" /\ calls' = calls

\* the step is counted as successful, logged as successful, and the run goes
\* on to waitForPageStable without a result
StepSucceeds ==
    /\ successfulSteps' = successfulSteps + 1
    /\ failedSteps' = failedSteps
    /\ healedSteps' = healedSteps
    /\ logs' = Append(logs, logs'[Len(logs')])
    /\ logs'[Len(logs')].stepNumber = step
    /\ logs'[Len(logs')].result = actionResult
    /\ logs'[Len(logs')].result[1].success
    /\ ~logs'[Len(logs')].healing.attempted
    /\ store' = store
    /\ step' = step
    /\ pc' = "stable"
    /\ result' = None

\* after waitForPageStable the loop goes to its next step, or ends without
\* an error when there is none
NextStepFollows ==
    (pc = "stable" /\ pc' # "stable") =>
        /\ step' = step + 1
        /\ \/ pc' = "observe" /\ totalSteps' = step'
           \/ pc' = "done" /\ step' > maxSteps /\ result'[1].error = Absent

\* C39: when generating the element embedding or saving the golden record
\* fails after a directly successful action, the step is still counted in
\* successfulSteps, its log entry is appended with result.success = true,
\* no error is set on the run, and the loop proceeds to the next step.
C39_GoldenFailureIsSwallowed ==
    [][ /\ GoldenStateFailure => StepSucceeds
        /\ NextStepFollows ]_vars

\* the first step succeeded directly, nothing was saved for it, and the
\* second step has begun
C39_Witness ==
    /\ pc = "observe"
    /\ step = 2
    /\ successfulSteps = 1
    /\ failedSteps = 0
    /\ Len(logs) = 1
    /\ logs[1].result[1].success
    /\ ~logs[1].healing.attempted
    /\ \A i \in 1..Len(calls) : calls[i].op # "save"
    /\ result = None

====
